---- MODULE Spec2Model ----
(***************************************************************************)
(* The scene interaction engine of the editor: the React state of          *)
(* ExcalidrawApp (tool, elements, selection, viewport, text edit), the     *)
(* refs its window-level listeners use (history, pending element, rubber   *)
(* band, interaction, stateRef mirror) and one action per event handler.   *)
(*                                                                         *)
(* React state variables hold the value the next render will show: a       *)
(* setX(v) call replaces it, a setX(prev => ...) call is applied to it.    *)
(* stateRef is the mirror the handlers read; it is refreshed by a render.  *)
(* A discrete event (mousedown, mouseup, keydown, click, blur) that sets   *)
(* React state is rendered before the next event is dispatched, so its     *)
(* action ends by refreshing the mirror; a mousemove's update is rendered  *)
(* by a later scheduler task, which is the separate action Render.         *)
(*                                                                         *)
(* Pointer events carry canvas-relative coordinates (clientX - rect.left). *)
(*                                                                         *)
(* The viewport's zoom and offsets are exact fractions n/d in lowest terms, *)
(* so the arithmetic of the source's numbers is the arithmetic of          *)
(* fractions, without rounding. Elements live on whole coordinates: the    *)
(* specifications that draw or hit-test keep the zoom at 1 and the offsets *)
(* whole, where the whole part taken by ClientToWorld is the exact value;  *)
(* the specification that zooms (SpecView) has an empty scene.             *)
(***************************************************************************)
EXTENDS Integers, Sequences, FiniteSets, TLC

\* ------------------------------------------------------------- bounds
MaxElems == 2
MaxDrawn == 1
MaxHist == 3
MaxPoints == 2

\* ------------------------------------------------------ program constants
HIT_THRESHOLD == 8
SELECTION_PADDING == 8
HANDLE_SIZE == 8
DEFAULT_FONT_SIZE == 20
MIN_SIZE == 2
MIN_ZOOM == [n |-> 1, d |-> 10]
MAX_ZOOM == [n |-> 20, d |-> 1]

\* -------------------------------------------------------------- inputs
Pt(x, y) == [x |-> x, y |-> y]
CorePoints == {Pt(10, 10), Pt(50, 50)}
DrawPoints == {Pt(10, 10), Pt(12, 12), Pt(50, 50), Pt(10, 50)}
Buttons == {0, 1}
Tools == {"select", "hand", "rectangle", "ellipse", "diamond", "arrow", "line",
          "freedraw", "text", "eraser"}
CoreTools == {"select", "rectangle", "eraser"}
BoxTools == {"rectangle", "ellipse", "diamond"}
TextTools == {"select", "text"}
ShapeTools == {"rectangle", "ellipse", "diamond", "arrow", "line"}
PathTypes == {"arrow", "line", "freedraw"}
Handles == <<"nw", "n", "ne", "e", "se", "s", "sw", "w">>
Texts == {"", "hi"}
Seeds == {7}
NoId == 0
Ids == 1 .. (MaxElems * (MaxHist + 1) + 2)

VARIABLES tool, elements, selectedIds, viewport, editingTextId,
          history, canUndo, canRedo, drawingEl, selRect, stateRef,
          interaction, isSpace, held

vars == <<tool, elements, selectedIds, viewport, editingTextId,
          history, canUndo, canRedo, drawingEl, selRect, stateRef,
          interaction, isSpace, held>>

\* ------------------------------------------------------------ arithmetic
Min(a, b) == IF a <= b THEN a ELSE b
Max(a, b) == IF a >= b THEN a ELSE b
Abs(a) == IF a < 0 THEN -a ELSE a
SetMin(S) == CHOOSE m \in S : \A n \in S : m <= n
SetMax(S) == CHOOSE m \in S : \A n \in S : m >= n

\* Exact fractions [n, d] with d > 0, in lowest terms.
RECURSIVE GCD(_, _)
GCD(a, b) == IF b = 0 THEN a ELSE GCD(b, a % b)
Rat(n, d) ==
    LET g == GCD(Abs(n), Abs(d))
        s == IF d < 0 THEN -1 ELSE 1
    IN [n |-> (s * n) \div g, d |-> (s * d) \div g]
Whole(i) == [n |-> i, d |-> 1]
WholePart(r) == r.n \div r.d
RAdd(a, b) == LET g == GCD(a.d, b.d)
              IN Rat(a.n * (b.d \div g) + b.n * (a.d \div g), (a.d \div g) * b.d)
RSub(a, b) == RAdd(a, [n |-> -b.n, d |-> b.d])
RMul(a, b) == LET p == Rat(a.n, b.d)
                  q == Rat(b.n, a.d)
              IN [n |-> p.n * q.n, d |-> p.d * q.d]
RDiv(a, b) == RMul(a, Rat(b.d, b.n))
RLeq(a, b) == a.n * b.d <= b.n * a.d
RMin(a, b) == IF RLeq(a, b) THEN a ELSE b
RMax(a, b) == IF RLeq(b, a) THEN a ELSE b

\* ------------------------------------------------------------- elements
\* createBase + createElement: a new element of the tool's type at (x, y).
CreateElement(t, id, x, y, seed) ==
    [id |-> id, type |-> t, x |-> x, y |-> y,
     width |-> IF t = "text" THEN 10 ELSE 0,
     height |-> IF t = "text" THEN DEFAULT_FONT_SIZE ELSE 0,
     seed |-> seed, isDeleted |-> FALSE,
     points |-> IF t \in PathTypes THEN <<[x |-> 0, y |-> 0]>> ELSE <<>>,
     pressures |-> IF t = "freedraw" THEN <<5>> ELSE <<>>,
     text |-> "",
     fontSize |-> IF t = "text" THEN DEFAULT_FONT_SIZE ELSE 0]

\* Faulty variant: normalizeRect that keeps the first corner and the signed difference.
NormalizeRectRaw(x1, y1, x2, y2) ==
    [x |-> x1, y |-> y1, width |-> x2 - x1, height |-> y2 - y1]

NormalizeRect(x1, y1, x2, y2) ==
    [x |-> Min(x1, x2), y |-> Min(y1, y2),
     width |-> Abs(x2 - x1), height |-> Abs(y2 - y1)]

\* measureText for single-line strings: the canvas reports CharWidth per
\* character; the height is one line of fontSize * 1.35.
CharWidth == 9
TextLen(t) == IF t = "" THEN 0 ELSE 2
MeasureText(t, fontSize) ==
    [width |-> Max(TextLen(t) * CharWidth, 10), height |-> (fontSize * 135) \div 100]

\* JSON.parse(JSON.stringify(els)): a structural copy, field by field.
JsonCloneEl(e) ==
    [id |-> e.id, type |-> e.type, x |-> e.x, y |-> e.y,
     width |-> e.width, height |-> e.height,
     seed |-> e.seed, isDeleted |-> e.isDeleted,
     points |-> [i \in 1 .. Len(e.points) |-> [x |-> e.points[i].x, y |-> e.points[i].y]],
     pressures |-> [i \in 1 .. Len(e.pressures) |-> e.pressures[i]],
     text |-> e.text, fontSize |-> e.fontSize]
JsonClone(els) == [i \in 1 .. Len(els) |-> JsonCloneEl(els[i])]

\* ------------------------------------------------------------- geometry
\* clientToWorld on exact fractions, and its counterpart: the canvas
\* transform scale(zoom) then translate(-offset), which is also the place
\* of the textarea overlay, (x - offsetX) * zoom.
RPt(p) == [x |-> Whole(p.x), y |-> Whole(p.y)]
ScreenToWorld(s, vp) ==
    [x |-> RAdd(RDiv(s.x, vp.zoom), vp.offsetX), y |-> RAdd(RDiv(s.y, vp.zoom), vp.offsetY)]

\* clientToWorld of a pointer event, on the whole coordinates of the scene.
ClientToWorld(p, vp) ==
    LET w == ScreenToWorld(RPt(p), vp)
    IN [x |-> WholePart(w.x), y |-> WholePart(w.y)]

\* Faulty variant: the offset taken off after the scaling.
WorldToScreenScaledFirst(w, vp) ==
    [x |-> RSub(RMul(w.x, vp.zoom), vp.offsetX), y |-> RSub(RMul(w.y, vp.zoom), vp.offsetY)]

WorldToScreen(w, vp) ==
    [x |-> RMul(RSub(w.x, vp.offsetX), vp.zoom), y |-> RMul(RSub(w.y, vp.offsetY), vp.zoom)]

GetElementBounds(e) ==
    IF e.type \in PathTypes
    THEN IF Len(e.points) = 0
         THEN [x |-> e.x, y |-> e.y, width |-> 0, height |-> 0]
         ELSE LET xs == {e.x + e.points[i].x : i \in 1 .. Len(e.points)}
                  ys == {e.y + e.points[i].y : i \in 1 .. Len(e.points)}
              IN [x |-> SetMin(xs), y |-> SetMin(ys),
                  width |-> SetMax(xs) - SetMin(xs),
                  height |-> SetMax(ys) - SetMin(ys)]
    ELSE [x |-> e.x, y |-> e.y, width |-> e.width, height |-> e.height]

\* distanceToSegment(p, a, b) < th, decided on squares (no square root):
\* t <= 0 gives |p - a|, t >= 1 gives |p - b|, else the perpendicular distance.
SegmentNear(px, py, ax, ay, bx, by, thNum, thDen) ==
    LET dx == bx - ax
        dy == by - ay
        lenSq == dx * dx + dy * dy
        dot == (px - ax) * dx + (py - ay) * dy
        dA == (px - ax) * (px - ax) + (py - ay) * (py - ay)
        dB == (px - bx) * (px - bx) + (py - by) * (py - by)
    IN IF lenSq = 0 \/ dot <= 0 THEN dA * thDen * thDen < thNum * thNum
       ELSE IF dot >= lenSq THEN dB * thDen * thDen < thNum * thNum
       ELSE (dA * lenSq - dot * dot) * thDen * thDen < thNum * thNum * lenSq

IsPointInElement(px, py, e, threshold) ==
    IF e.type \in {"line", "arrow"}
    THEN \E i \in 1 .. Len(e.points) - 1 :
            SegmentNear(px, py, e.x + e.points[i].x, e.y + e.points[i].y,
                        e.x + e.points[i + 1].x, e.y + e.points[i + 1].y, threshold, 1)
    ELSE IF e.type = "freedraw"
    THEN \E i \in 1 .. Len(e.points) - 1 :
            SegmentNear(px, py, e.x + e.points[i].x, e.y + e.points[i].y,
                        e.x + e.points[i + 1].x, e.y + e.points[i + 1].y, threshold, 2)
    ELSE px >= e.x /\ px <= e.x + e.width /\ py >= e.y /\ py <= e.y + e.height

\* Faulty variant: getElementAtPoint scanning from the bottom of the scene.
RECURSIVE HitUpFrom(_, _, _, _)
HitUpFrom(els, i, x, y) ==
    IF i > Len(els) THEN 0
    ELSE IF ~els[i].isDeleted /\ IsPointInElement(x, y, els[i], HIT_THRESHOLD) THEN i
    ELSE HitUpFrom(els, i + 1, x, y)
HitIndexFirst(els, x, y) == HitUpFrom(els, 1, x, y)

\* getElementAtPoint's loop from the last element down: the index (1-based)
\* of the first non-deleted element containing the point, 0 if none.
RECURSIVE HitFrom(_, _, _, _)
HitFrom(els, i, x, y) ==
    IF i = 0 THEN 0
    ELSE IF ~els[i].isDeleted /\ IsPointInElement(x, y, els[i], HIT_THRESHOLD) THEN i
    ELSE HitFrom(els, i - 1, x, y)
HitIndex(els, x, y) == HitFrom(els, Len(els), x, y)

\* Faulty variant: a filter that also takes what only overlaps the rectangle.
InRectTouch(e, rx, ry, rw, rh) ==
    LET b == GetElementBounds(e)
    IN ~e.isDeleted /\ b.x <= rx + rw /\ b.y <= ry + rh
       /\ b.x + b.width >= rx /\ b.y + b.height >= ry

\* Faulty variant: a filter that also takes the soft-deleted elements.
InRectWithDeleted(e, rx, ry, rw, rh) ==
    LET b == GetElementBounds(e)
    IN b.x >= rx /\ b.y >= ry
       /\ b.x + b.width <= rx + rw /\ b.y + b.height <= ry + rh

InRect(e, rx, ry, rw, rh) ==
    LET b == GetElementBounds(e)
    IN ~e.isDeleted /\ b.x >= rx /\ b.y >= ry
       /\ b.x + b.width <= rx + rw /\ b.y + b.height <= ry + rh

GetElementsInRect(els, rx, ry, rw, rh) ==
    LET Inside(e) == InRect(e, rx, ry, rw, rh) IN SelectSeq(els, Inside)

\* <<>> when nothing selected is live, else <<bounds>>.
GetSelectionBounds(els, sel) ==
    LET idx == {i \in 1 .. Len(els) : els[i].id \in sel /\ ~els[i].isDeleted}
        b(i) == GetElementBounds(els[i])
    IN IF idx = {} THEN <<>>
       ELSE LET x == SetMin({b(i).x : i \in idx})
                y == SetMin({b(i).y : i \in idx})
                x2 == SetMax({b(i).x + b(i).width : i \in idx})
                y2 == SetMax({b(i).y + b(i).height : i \in idx})
            IN <<[x |-> x, y |-> y, width |-> x2 - x, height |-> y2 - y]>>

\* Handle positions in doubled screen pixels (edge midpoints are halves).
HandlePos2(h, b, vp) ==
    LET bx == WholePart(RMul(RSub(Whole(b.x), vp.offsetX), vp.zoom)) - SELECTION_PADDING
        by == WholePart(RMul(RSub(Whole(b.y), vp.offsetY), vp.zoom)) - SELECTION_PADDING
        bw == WholePart(RMul(Whole(b.width), vp.zoom)) + 2 * SELECTION_PADDING
        bh == WholePart(RMul(Whole(b.height), vp.zoom)) + 2 * SELECTION_PADDING
    IN [x |-> IF h \in {"nw", "sw", "w"} THEN 2 * bx
              ELSE IF h \in {"n", "s"} THEN 2 * bx + bw ELSE 2 * bx + 2 * bw,
        y |-> IF h \in {"nw", "n", "ne"} THEN 2 * by
              ELSE IF h \in {"e", "w"} THEN 2 * by + bh ELSE 2 * by + 2 * bh]

\* "" when no handle is under the screen point, else the first one in order.
GetHandleAtScreenPoint(sx, sy, els, sel, vp) ==
    LET bs == GetSelectionBounds(els, sel)
        hitR == HANDLE_SIZE + 2
        Hit(i) == LET h == HandlePos2(Handles[i], bs[1], vp)
                  IN Abs(2 * sx - h.x) < 2 * hitR /\ Abs(2 * sy - h.y) < 2 * hitR
    IN IF Cardinality(sel) # 1 \/ bs = <<>> THEN ""
       ELSE LET hs == {i \in 1 .. Len(Handles) : Hit(i)}
            IN IF hs = {} THEN "" ELSE Handles[SetMin(hs)]

\* Faulty variant: applyResize whose west and north handles leave x, y alone.
ApplyResizeNoShift(orig, handle, dx, dy) ==
    LET w == IF handle \in {"nw", "sw", "w"} THEN orig.width - dx
             ELSE IF handle \in {"ne", "e", "se"} THEN orig.width + dx ELSE orig.width
        h == IF handle \in {"nw", "n", "ne"} THEN orig.height - dy
             ELSE IF handle \in {"se", "s", "sw"} THEN orig.height + dy ELSE orig.height
    IN [x |-> orig.x, y |-> orig.y,
        width |-> IF w < MIN_SIZE THEN MIN_SIZE ELSE w,
        height |-> IF h < MIN_SIZE THEN MIN_SIZE ELSE h]

\* Faulty variant: applyResize that floors the width only.
ApplyResizeNoFloor(orig, handle, dx, dy) ==
    LET x == IF handle \in {"nw", "sw", "w"} THEN orig.x + dx ELSE orig.x
        y == IF handle \in {"nw", "n", "ne"} THEN orig.y + dy ELSE orig.y
        w == IF handle \in {"nw", "sw", "w"} THEN orig.width - dx
             ELSE IF handle \in {"ne", "e", "se"} THEN orig.width + dx ELSE orig.width
        h == IF handle \in {"nw", "n", "ne"} THEN orig.height - dy
             ELSE IF handle \in {"se", "s", "sw"} THEN orig.height + dy ELSE orig.height
    IN [x |-> x, y |-> y,
        width |-> IF w < MIN_SIZE THEN MIN_SIZE ELSE w,
        height |-> h]

\* Faulty variant: applyResize that floors the height only.
ApplyResizeWidthFree(orig, handle, dx, dy) ==
    LET x == IF handle \in {"nw", "sw", "w"} THEN orig.x + dx ELSE orig.x
        y == IF handle \in {"nw", "n", "ne"} THEN orig.y + dy ELSE orig.y
        w == IF handle \in {"nw", "sw", "w"} THEN orig.width - dx
             ELSE IF handle \in {"ne", "e", "se"} THEN orig.width + dx ELSE orig.width
        h == IF handle \in {"nw", "n", "ne"} THEN orig.height - dy
             ELSE IF handle \in {"se", "s", "sw"} THEN orig.height + dy ELSE orig.height
    IN [x |-> x, y |-> y,
        width |-> w,
        height |-> IF h < MIN_SIZE THEN MIN_SIZE ELSE h]

ApplyResize(orig, handle, dx, dy) ==
    LET x == IF handle \in {"nw", "sw", "w"} THEN orig.x + dx ELSE orig.x
        y == IF handle \in {"nw", "n", "ne"} THEN orig.y + dy ELSE orig.y
        w == IF handle \in {"nw", "sw", "w"} THEN orig.width - dx
             ELSE IF handle \in {"ne", "e", "se"} THEN orig.width + dx ELSE orig.width
        h == IF handle \in {"nw", "n", "ne"} THEN orig.height - dy
             ELSE IF handle \in {"se", "s", "sw"} THEN orig.height + dy ELSE orig.height
    IN [x |-> x, y |-> y,
        width |-> IF w < MIN_SIZE THEN MIN_SIZE ELSE w,
        height |-> IF h < MIN_SIZE THEN MIN_SIZE ELSE h]

\* -------------------------------------------------------------- history
\* Faulty variant: pushHistory without the slice(0, index + 1).
PushHistoryKeep(h, els) ==
    [stack |-> Append(h.stack, JsonClone(els)), index |-> Len(h.stack)]

\* Faulty variant: pushHistory whose cursor is the new length.
PushHistoryPast(h, els) ==
    [stack |-> Append(SubSeq(h.stack, 1, h.index + 1), JsonClone(els)),
     index |-> h.index + 2]

\* Faulty variant: pushHistory that writes over the snapshot at the cursor.
PushHistoryInPlace(h, els) ==
    [stack |-> Append(SubSeq(h.stack, 1, h.index), JsonClone(els)), index |-> h.index]

\* pushHistory: the stack after the push. index is 0-based as in the code.
PushHistory(h, els) ==
    LET newStack == Append(SubSeq(h.stack, 1, h.index + 1), JsonClone(els))
    IN [stack |-> newStack, index |-> Len(newStack) - 1]

\* Faulty variant: undo / redo that read the snapshot before moving the cursor.
SnapshotStale(h, i) == h.stack[h.index + 1]

\* The snapshot at 0-based position i of the stack.
Snapshot(h, i) == h.stack[i + 1]

\* The mirror a render writes: stateRef.current = { tool, elements, ... }.
Mirror(t, els, sel, vp, ed) ==
    [tool |-> t, elements |-> els, selectedIds |-> sel, viewport |-> vp,
     editingTextId |-> ed]

\* The render that follows a handler which set React state.
Flush ==
    stateRef' = IF <<tool', elements', selectedIds', viewport', editingTextId',
                     canUndo', canRedo'>>
                   = <<tool, elements, selectedIds, viewport, editingTextId,
                       canUndo, canRedo>>
                THEN stateRef
                ELSE Mirror(tool', elements', selectedIds', viewport', editingTextId')

Idle == [mode |-> "idle"]

\* useState<Viewport>({ zoom: 1, offsetX: 0, offsetY: 0 }).
HomeView == [zoom |-> Whole(1), offsetX |-> Whole(0), offsetY |-> Whole(0)]

Init ==
    /\ tool = "select"
    /\ elements = <<>>
    /\ selectedIds = {}
    /\ viewport = HomeView
    /\ editingTextId = NoId
    /\ history = [stack |-> << <<>> >>, index |-> 0]
    /\ canUndo = FALSE
    /\ canRedo = FALSE
    /\ drawingEl = <<>>
    /\ selRect = <<>>
    /\ stateRef = Mirror("select", <<>>, {}, HomeView, NoId)
    /\ interaction = Idle
    /\ isSpace = FALSE
    /\ held = {}

\* The textarea has the focus while a text element is edited: window key
\* handlers then see inInput and the toolbar is reached only through a blur.
Editing == editingTextId # NoId

\* ------------------------------------------------------------ undo / redo
\* Faulty variant: an undo that also takes the viewport back home.
UndoResetsView ==
    /\ ~Editing
    /\ IF history.index > 0
       THEN /\ history' = [history EXCEPT !.index = history.index - 1]
            /\ elements' = JsonClone(Snapshot(history, history.index - 1))
            /\ selectedIds' = {}
            /\ canUndo' = (history.index - 1 > 0)
            /\ canRedo' = TRUE
            /\ viewport' = HomeView
       ELSE UNCHANGED <<history, elements, selectedIds, canUndo, canRedo, viewport>>
    /\ UNCHANGED <<tool, editingTextId, drawingEl, selRect, interaction, isSpace, held>>
    /\ Flush

Undo ==
    /\ ~Editing
    /\ IF history.index > 0
       THEN /\ history' = [history EXCEPT !.index = history.index - 1]
            /\ elements' = JsonClone(Snapshot(history, history.index - 1))
            /\ selectedIds' = {}
            /\ canUndo' = (history.index - 1 > 0)
            /\ canRedo' = TRUE
       ELSE UNCHANGED <<history, elements, selectedIds, canUndo, canRedo>>
    /\ UNCHANGED <<tool, viewport, editingTextId, drawingEl, selRect, interaction,
                   isSpace, held>>
    /\ Flush

\* Faulty variant: redo with setSelectedIds(new Set()) outside the guard.
RedoClears ==
    /\ ~Editing
    /\ selectedIds' = {}
    /\ IF history.index < Len(history.stack) - 1
       THEN /\ history' = [history EXCEPT !.index = history.index + 1]
            /\ elements' = JsonClone(Snapshot(history, history.index + 1))
            /\ canUndo' = TRUE
            /\ canRedo' = (history.index + 1 < Len(history.stack) - 1)
       ELSE UNCHANGED <<history, elements, canUndo, canRedo>>
    /\ UNCHANGED <<tool, viewport, editingTextId, drawingEl, selRect, interaction,
                   isSpace, held>>
    /\ Flush

Redo ==
    /\ ~Editing
    /\ IF history.index < Len(history.stack) - 1
       THEN /\ history' = [history EXCEPT !.index = history.index + 1]
            /\ elements' = JsonClone(Snapshot(history, history.index + 1))
            /\ selectedIds' = {}
            /\ canUndo' = TRUE
            /\ canRedo' = (history.index + 1 < Len(history.stack) - 1)
       ELSE UNCHANGED <<history, elements, selectedIds, canUndo, canRedo>>
    /\ UNCHANGED <<tool, viewport, editingTextId, drawingEl, selRect, interaction,
                   isSpace, held>>
    /\ Flush

\* Tool shortcut or toolbar button: setTool only.
SetTool(t) ==
    /\ ~Editing
    /\ tool' = t
    /\ UNCHANGED <<elements, selectedIds, viewport, editingTextId, history, canUndo,
                   canRedo, drawingEl, selRect, interaction, isSpace, held>>
    /\ Flush

\* ------------------------------------------------------- shared helpers
ElemIds(els) == {els[i].id : i \in 1 .. Len(els)}
FindById(els, id) == els[SetMin({i \in 1 .. Len(els) : els[i].id = id})]

\* uuidv4(): an id that occurs nowhere in the session.
UsedIds ==
    ElemIds(elements) \cup ElemIds(stateRef.elements) \cup ElemIds(drawingEl)
    \cup UNION {ElemIds(history.stack[i]) : i \in 1 .. Len(history.stack)}
    \cup selectedIds \cup stateRef.selectedIds \cup {editingTextId}
    \cup (IF interaction.mode = "moving" THEN DOMAIN interaction.origPositions ELSE {})
    \cup (IF interaction.mode = "resizing" THEN {interaction.elementId} ELSE {})
FreshId == SetMin(Ids \ UsedIds)

\* Faulty variant: a push that leaves the redo flag as it was.
PushKeepsRedo(els) ==
    /\ history' = PushHistory(history, els)
    /\ canUndo' = (Len(history'.stack) > 1)
    /\ canRedo' = canRedo

\* pushHistory(els) with its setCanUndo / setCanRedo.
Push(els) ==
    /\ history' = PushHistory(history, els)
    /\ canUndo' = (Len(history'.stack) > 1)
    /\ canRedo' = FALSE

NoPush == UNCHANGED <<history, canUndo, canRedo>>

Trim(t) == IF t \in {"", " "} THEN "" ELSE t

\* commitTextEdit's reduce over the elements.
CommitTextEls(els, ed, text) ==
    LET Keep(e) == ~(e.id = ed /\ e.type = "text" /\ Trim(text) = "" /\ e.text = "")
        Upd(e) == IF e.id = ed /\ e.type = "text"
                  THEN LET m == MeasureText(text, e.fontSize)
                       IN [e EXCEPT !.text = text,
                                    !.width = Max(m.width, 10),
                                    !.height = Max(m.height, e.fontSize)]
                  ELSE e
        kept == SelectSeq(els, Keep)
    IN [i \in 1 .. Len(kept) |-> Upd(kept[i])]

\* commitTextEdit with the textarea holding text.
CommitTextEdit(text) ==
    IF stateRef.editingTextId = NoId
    THEN UNCHANGED <<elements, history, canUndo, canRedo, editingTextId>>
    ELSE /\ elements' = CommitTextEls(stateRef.elements, stateRef.editingTextId, text)
         /\ Push(elements')
         /\ editingTextId' = NoId

\* Faulty variant: a delete that takes the elements out of the sequence.
SoftDeleteRemove(els, ids) ==
    LET Kept(e) == e.id \notin ids IN SelectSeq(els, Kept)

\* Soft delete of the elements whose id is in ids.
SoftDelete(els, ids) ==
    [i \in 1 .. Len(els) |->
        IF els[i].id \in ids THEN [els[i] EXCEPT !.isDeleted = TRUE] ELSE els[i]]

\* ------------------------------------------------------------ mouse down
\* Faulty variant: a shift-click on an unselected element that drops the rest
\* of the selection.
ClickSelectionShiftReplaces(sel, hitId, shift) ==
    IF ~shift /\ hitId \notin sel THEN {hitId}
    ELSE IF shift THEN (IF hitId \in sel THEN sel \ {hitId} ELSE {hitId})
    ELSE sel

\* Select-tool click on the element hitId: the selection it leaves.
ClickSelection(sel, hitId, shift) ==
    IF ~shift /\ hitId \notin sel THEN {hitId}
    ELSE IF shift THEN (IF hitId \in sel THEN sel \ {hitId} ELSE sel \cup {hitId})
    ELSE sel

\* The ids whose elements the moving gesture will translate.
ActiveIds(sel, hitId, shift) ==
    IF shift THEN sel \cup {hitId}
    ELSE IF hitId \in sel THEN sel ELSE {hitId}

OrigPositions(els, ids) ==
    [id \in ids |-> [x |-> FindById(els, id).x, y |-> FindById(els, id).y]]

PanDown(p) ==
    /\ interaction' = [mode |-> "panning", startX |-> p.x, startY |-> p.y,
                       origOffset |-> [x |-> stateRef.viewport.offsetX,
                                       y |-> stateRef.viewport.offsetY]]
    /\ UNCHANGED <<elements, selectedIds, editingTextId, drawingEl>>
    /\ NoPush

SelectDown(p, world, shift, detail) ==
    LET els == stateRef.elements
        sel == stateRef.selectedIds
        handle == GetHandleAtScreenPoint(p.x, p.y, els, sel, stateRef.viewport)
        hit == HitIndex(els, world.x, world.y)
    IN IF handle # ""
       THEN /\ interaction' = [mode |-> "resizing", handle |-> handle,
                               startX |-> world.x, startY |-> world.y,
                               origBounds |-> GetSelectionBounds(els, sel)[1],
                               elementId |-> CHOOSE id \in sel : TRUE]
            /\ UNCHANGED <<elements, selectedIds, editingTextId, drawingEl>>
            /\ NoPush
       ELSE IF hit # 0
       THEN IF detail = 2 /\ els[hit].type = "text"
            THEN \* startTextEditing(hit)
                 /\ editingTextId' = els[hit].id
                 /\ selectedIds' = {els[hit].id}
                 /\ UNCHANGED <<elements, drawingEl, interaction>>
                 /\ NoPush
            ELSE LET active == ActiveIds(sel, els[hit].id, shift)
                 IN /\ selectedIds' = ClickSelection(sel, els[hit].id, shift)
                    \* elements.find(...)! of an id that is in no element throws
                    \* before interactionRef is assigned
                    /\ interaction' =
                          IF active \subseteq ElemIds(els)
                          THEN [mode |-> "moving", startX |-> world.x, startY |-> world.y,
                                origPositions |-> OrigPositions(els, active)]
                          ELSE interaction
                    /\ UNCHANGED <<elements, editingTextId, drawingEl>>
                    /\ NoPush
       ELSE /\ selectedIds' = {}
            /\ interaction' = [mode |-> "selecting", startX |-> world.x, startY |-> world.y]
            /\ UNCHANGED <<elements, editingTextId, drawingEl>>
            /\ NoPush

\* Faulty variant: an eraser that deletes every element under the point.
EraserDownAll(world) ==
    LET els == stateRef.elements
        under == {els[i].id : i \in {j \in 1 .. Len(els) :
                     ~els[j].isDeleted
                     /\ IsPointInElement(world.x, world.y, els[j], HIT_THRESHOLD)}}
    IN IF under # {}
       THEN /\ elements' = SoftDelete(els, under)
            /\ Push(elements')
            /\ selectedIds' = {}
            /\ UNCHANGED <<editingTextId, drawingEl, interaction>>
       ELSE /\ UNCHANGED <<elements, selectedIds, editingTextId, drawingEl, interaction>>
            /\ NoPush

EraserDown(world) ==
    LET els == stateRef.elements
        hit == HitIndex(els, world.x, world.y)
    IN IF hit # 0
       THEN /\ elements' = SoftDelete(els, {els[hit].id})
            /\ Push(elements')
            /\ selectedIds' = {}
            /\ UNCHANGED <<editingTextId, drawingEl, interaction>>
       ELSE /\ UNCHANGED <<elements, selectedIds, editingTextId, drawingEl, interaction>>
            /\ NoPush

TextDown(world, seed) ==
    LET els == stateRef.elements
        hit == HitIndex(els, world.x, world.y)
    IN IF hit # 0 /\ els[hit].type = "text"
       THEN /\ editingTextId' = els[hit].id
            /\ selectedIds' = {els[hit].id}
            /\ UNCHANGED <<elements, drawingEl, interaction>>
            /\ NoPush
       ELSE /\ elements' = Append(els, CreateElement("text", FreshId, world.x, world.y, seed))
            /\ editingTextId' = FreshId
            /\ selectedIds' = {FreshId}
            /\ UNCHANGED <<drawingEl, interaction>>
            /\ NoPush

\* Faulty variant: a drawing pointer-down that puts the new element into the
\* scene at once, as the text tool does.
DrawDownIntoScene(t, world, seed) ==
    /\ drawingEl' = <<CreateElement(t, FreshId, world.x, world.y, seed)>>
    /\ elements' = Append(stateRef.elements, drawingEl'[1])
    /\ interaction' = IF t = "freedraw" THEN [mode |-> "freedrawing"]
                      ELSE [mode |-> "drawing", startX |-> world.x, startY |-> world.y]
    /\ UNCHANGED <<selectedIds, editingTextId>>
    /\ NoPush

DrawDown(t, world, seed) ==
    /\ drawingEl' = <<CreateElement(t, FreshId, world.x, world.y, seed)>>
    /\ interaction' = IF t = "freedraw" THEN [mode |-> "freedrawing"]
                      ELSE [mode |-> "drawing", startX |-> world.x, startY |-> world.y]
    /\ UNCHANGED <<elements, selectedIds, editingTextId>>
    /\ NoPush

\* handleMouseDown. button 0 = primary, 1 = middle; detail = click count.
MouseDown(p, button, shift, detail, text, seed) ==
    /\ button \notin held
    /\ held' = held \cup {button}
    /\ LET t == stateRef.tool
           world == ClientToWorld(p, stateRef.viewport)
       IN IF stateRef.editingTextId # NoId
          THEN /\ CommitTextEdit(text)
               /\ UNCHANGED <<selectedIds, drawingEl, interaction>>
          ELSE IF t = "hand" \/ button = 1 \/ (button = 0 /\ isSpace) THEN PanDown(p)
          ELSE IF button # 0
          THEN /\ UNCHANGED <<elements, selectedIds, editingTextId, drawingEl, interaction>>
               /\ NoPush
          ELSE IF t = "select" THEN SelectDown(p, world, shift, detail)
          ELSE IF t = "eraser" THEN EraserDown(world)
          ELSE IF t = "text" THEN TextDown(world, seed)
          ELSE DrawDown(t, world, seed)
    /\ UNCHANGED <<tool, viewport, selRect, isSpace>>
    /\ Flush

\* ------------------------------------------------------------ mouse move
\* The pending box-like element after a move to world: normalizeRect spread
\* over it; a line or arrow gets exactly two points.
DrawMove(el, startX, startY, world) ==
    IF el.type \in {"line", "arrow"}
    THEN [el EXCEPT !.points = <<[x |-> 0, y |-> 0],
                                 [x |-> world.x - el.x, y |-> world.y - el.y]>>]
    ELSE LET norm == NormalizeRect(startX, startY, world.x, world.y)
         IN [el EXCEPT !.x = norm.x, !.y = norm.y,
                       !.width = norm.width, !.height = norm.height]

\* Faulty variant: a freehand move that records the point without a pressure.
FreedrawMoveNoPressure(el, world) ==
    [el EXCEPT !.points = Append(el.points, [x |-> world.x - el.x, y |-> world.y - el.y])]

FreedrawMove(el, world) ==
    [el EXCEPT !.points = Append(el.points, [x |-> world.x - el.x, y |-> world.y - el.y]),
               !.pressures = Append(el.pressures, 5)]

\* The position a moved element gets: its captured position plus the delta.
MovedPosition(orig, dx, dy) == [x |-> orig.x + dx, y |-> orig.y + dy]

\* Faulty variant: a move that adds the delta to the previous position.
MoveElementsStep(prev, origPositions, dx, dy) ==
    [i \in 1 .. Len(prev) |->
        IF prev[i].id \in DOMAIN origPositions
        THEN [prev[i] EXCEPT !.x = prev[i].x + dx, !.y = prev[i].y + dy]
        ELSE prev[i]]

MoveElements(prev, origPositions, dx, dy) ==
    [i \in 1 .. Len(prev) |->
        IF prev[i].id \in DOMAIN origPositions
        THEN LET pos == MovedPosition(origPositions[prev[i].id], dx, dy)
             IN [prev[i] EXCEPT !.x = pos.x, !.y = pos.y]
        ELSE prev[i]]

ResizeElements(prev, elementId, b) ==
    [i \in 1 .. Len(prev) |->
        IF prev[i].id = elementId
        THEN [prev[i] EXCEPT !.x = b.x, !.y = b.y, !.width = b.width, !.height = b.height]
        ELSE prev[i]]

\* Faulty variant: a pan that takes the screen delta as a world delta.
PanOffsetUnscaled(orig, start, cur, zoom) == RSub(orig, Whole(cur - start))

\* The offset of a pan: the captured offset minus the screen delta / zoom.
PanOffset(orig, start, cur, zoom) == RSub(orig, RDiv(Whole(cur - start), zoom))

\* What onMouseMove writes: the part of the state a pointer move can touch.
Touched(vp, dEl, sRect, sel, els) ==
    [viewport |-> vp, drawingEl |-> dEl, selRect |-> sRect, selectedIds |-> sel,
     elements |-> els]

\* onMouseMove at the client point p, run on the touched part cur, with the
\* interaction ia and the mirror ref: the touched part it leaves.
HandledMove(p, ia, ref, cur) ==
    LET vp == ref.viewport
        world == ClientToWorld(p, vp)
    IN CASE ia.mode = "idle" -> cur
         [] ia.mode = "panning" ->
              [cur EXCEPT !.viewport =
                  [zoom |-> vp.zoom,
                   offsetX |-> PanOffset(ia.origOffset.x, ia.startX, p.x, vp.zoom),
                   offsetY |-> PanOffset(ia.origOffset.y, ia.startY, p.y, vp.zoom)]]
         [] ia.mode = "drawing" ->
              [cur EXCEPT !.drawingEl =
                  IF cur.drawingEl = <<>> THEN cur.drawingEl
                  ELSE <<DrawMove(cur.drawingEl[1], ia.startX, ia.startY, world)>>]
         [] ia.mode = "freedrawing" ->
              [cur EXCEPT !.drawingEl =
                  IF cur.drawingEl = <<>> THEN cur.drawingEl
                  ELSE <<FreedrawMove(cur.drawingEl[1], world)>>]
         [] ia.mode = "selecting" ->
              LET r == NormalizeRect(ia.startX, ia.startY, world.x, world.y)
              IN [cur EXCEPT !.selRect = <<r>>,
                             !.selectedIds = ElemIds(GetElementsInRect(ref.elements,
                                                         r.x, r.y, r.width, r.height))]
         [] ia.mode = "moving" ->
              [cur EXCEPT !.elements = MoveElements(cur.elements, ia.origPositions,
                                           world.x - ia.startX, world.y - ia.startY)]
         [] ia.mode = "resizing" ->
              [cur EXCEPT !.elements = ResizeElements(cur.elements, ia.elementId,
                                           ApplyResize(ia.origBounds, ia.handle,
                                                       world.x - ia.startX, world.y - ia.startY))]

\* window 'mousemove'. Its state updates are rendered later (Render).
MouseMove(p) ==
    /\ LET after == HandledMove(p, interaction, stateRef,
                         Touched(viewport, drawingEl, selRect, selectedIds, elements))
       IN /\ viewport' = after.viewport
          /\ drawingEl' = after.drawingEl
          /\ selRect' = after.selRect
          /\ selectedIds' = after.selectedIds
          /\ elements' = after.elements
    /\ UNCHANGED <<tool, editingTextId, history, canUndo, canRedo, stateRef,
                   interaction, isSpace, held>>

\* A render: stateRef.current is assigned the state being rendered.
Render ==
    /\ stateRef # Mirror(tool, elements, selectedIds, viewport, editingTextId)
    /\ stateRef' = Mirror(tool, elements, selectedIds, viewport, editingTextId)
    /\ UNCHANGED <<tool, elements, selectedIds, viewport, editingTextId, history,
                   canUndo, canRedo, drawingEl, selRect, interaction, isSpace, held>>

\* -------------------------------------------------------------- mouse up
\* Faulty variant: isValid that asks for both sides to exceed 2.
IsValidBoth(el) ==
    IF el.type \in PathTypes THEN Len(el.points) >= 2
    ELSE Abs(el.width) > 2 /\ Abs(el.height) > 2

\* The validity test of a pending element at pointer-up.
IsValid(el) ==
    IF el.type \in PathTypes THEN Len(el.points) >= 2
    ELSE Abs(el.width) > 2 \/ Abs(el.height) > 2

\* window 'mouseup' (any button).
MouseUp(button) ==
    /\ button \in held
    /\ held' = held \ {button}
    /\ IF interaction.mode \in {"drawing", "freedrawing"}
       THEN /\ IF drawingEl # <<>> /\ IsValid(drawingEl[1])
               THEN /\ elements' = Append(elements, drawingEl[1])
                    /\ Push(elements')
                    /\ selectedIds' = {drawingEl[1].id}
               ELSE /\ UNCHANGED <<elements, selectedIds>>
                    /\ NoPush
            /\ drawingEl' = <<>>
            /\ UNCHANGED selRect
       ELSE IF interaction.mode = "selecting"
       THEN /\ selRect' = <<>>
            /\ UNCHANGED <<elements, selectedIds, drawingEl>>
            /\ NoPush
       ELSE IF interaction.mode \in {"moving", "resizing"}
       THEN /\ Push(stateRef.elements)
            /\ UNCHANGED <<elements, selectedIds, drawingEl, selRect>>
       ELSE /\ UNCHANGED <<elements, selectedIds, drawingEl, selRect>>
            /\ NoPush
    /\ interaction' = Idle
    /\ UNCHANGED <<tool, viewport, editingTextId, isSpace>>
    /\ Flush

\* ------------------------------------------------------------- keyboard
SelectAll ==
    /\ ~Editing
    /\ selectedIds' = {stateRef.elements[i].id : i \in
                          {j \in 1 .. Len(stateRef.elements) : ~stateRef.elements[j].isDeleted}}
    /\ UNCHANGED <<tool, elements, viewport, editingTextId, history, canUndo, canRedo,
                   drawingEl, selRect, interaction, isSpace, held>>
    /\ Flush

DeleteKey ==
    /\ ~Editing
    /\ IF stateRef.selectedIds # {}
       THEN /\ elements' = SoftDelete(stateRef.elements, stateRef.selectedIds)
            /\ Push(elements')
            /\ selectedIds' = {}
       ELSE /\ UNCHANGED <<elements, selectedIds>>
            /\ NoPush
    /\ UNCHANGED <<tool, viewport, editingTextId, drawingEl, selRect, interaction,
                   isSpace, held>>
    /\ Flush

\* Escape with the focus outside the textarea.
EscapeKey ==
    /\ ~Editing
    /\ drawingEl' = <<>>
    /\ selRect' = <<>>
    /\ interaction' = Idle
    /\ selectedIds' = {}
    /\ CommitTextEdit("")
    /\ UNCHANGED <<tool, viewport, isSpace, held>>
    /\ Flush

SpaceKey(down) ==
    /\ ~Editing
    /\ isSpace' = down
    /\ isSpace' # isSpace
    /\ UNCHANGED <<tool, elements, selectedIds, viewport, editingTextId, history,
                   canUndo, canRedo, drawingEl, selRect, stateRef, interaction, held>>

\* --------------------------------------------------------------- zoom
\* The zoom factors of the handlers: wheel 1.1 and 0.9, keys 1.15, buttons 1.2.
WheelIn == Rat(11, 10)
WheelOut == Rat(9, 10)
KeyStep == Rat(23, 20)
ButtonStep == Rat(6, 5)

\* canvas.offsetWidth / 2, canvas.offsetHeight / 2 of a canvas of 80 x 160.
CanvasCenter == Pt(40, 80)

\* Faulty variant: a clamp without the lower limit.
ClampedAbove(newZoom) == RMin(MAX_ZOOM, newZoom)

\* Math.max(MIN_ZOOM, Math.min(MAX_ZOOM, newZoom)).
Clamped(newZoom) == RMax(MIN_ZOOM, RMin(MAX_ZOOM, newZoom))

\* Faulty variant: the two reciprocals the other way round.
NewOffsetSwapped(offset, center, zoom, clamped) ==
    RAdd(offset, RMul(Whole(center), RSub(RDiv(Whole(1), clamped), RDiv(Whole(1), zoom))))

\* offset + center * (1 / zoom - 1 / clamped).
NewOffset(offset, center, zoom, clamped) ==
    RAdd(offset, RMul(Whole(center), RSub(RDiv(Whole(1), zoom), RDiv(Whole(1), clamped))))

\* zoomAround: reads the mirror's viewport, replaces the viewport.
ZoomAround(centerX, centerY, newZoom) ==
    LET vp == stateRef.viewport
        clamped == Clamped(newZoom)
    IN viewport' = [zoom |-> clamped,
                    offsetX |-> NewOffset(vp.offsetX, centerX, vp.zoom, clamped),
                    offsetY |-> NewOffset(vp.offsetY, centerY, vp.zoom, clamped)]

\* handleWheel at canvas point p. With ctrl or meta it zooms around p,
\* otherwise it pans by the wheel deltas over the mirror's zoom, applied to
\* the pending viewport. Its update is rendered later (Render).
HandleWheel(p, ctrl, deltaX, deltaY) ==
    /\ IF ctrl
       THEN ZoomAround(p.x, p.y, RMul(stateRef.viewport.zoom,
                                      IF deltaY < 0 THEN WheelIn ELSE WheelOut))
       ELSE viewport' = [viewport EXCEPT
                !.offsetX = RAdd(@, RDiv(Whole(deltaX), stateRef.viewport.zoom)),
                !.offsetY = RAdd(@, RDiv(Whole(deltaY), stateRef.viewport.zoom))]
    /\ UNCHANGED <<tool, elements, selectedIds, editingTextId, history, canUndo,
                   canRedo, drawingEl, selRect, stateRef, interaction, isSpace, held>>

\* Ctrl+= / Ctrl++ (in) and Ctrl+- (out), focus outside the textarea.
ZoomKey(in) ==
    /\ ~Editing
    /\ ZoomAround(CanvasCenter.x, CanvasCenter.y,
                  IF in THEN RMul(stateRef.viewport.zoom, KeyStep)
                  ELSE RDiv(stateRef.viewport.zoom, KeyStep))
    /\ UNCHANGED <<tool, elements, selectedIds, editingTextId, history, canUndo,
                   canRedo, drawingEl, selRect, interaction, isSpace, held>>
    /\ Flush

\* A click on the + or - button: viewport.zoom of the last render * or / 1.2.
ZoomButton(in) ==
    /\ ZoomAround(CanvasCenter.x, CanvasCenter.y,
                  IF in THEN RMul(stateRef.viewport.zoom, ButtonStep)
                  ELSE RDiv(stateRef.viewport.zoom, ButtonStep))
    /\ UNCHANGED <<tool, elements, selectedIds, editingTextId, history, canUndo,
                   canRedo, drawingEl, selRect, interaction, isSpace, held>>
    /\ Flush

\* Ctrl+0 or a click on the zoom label.
ResetView ==
    /\ ~Editing
    /\ viewport' = HomeView
    /\ UNCHANGED <<tool, elements, selectedIds, editingTextId, history, canUndo,
                   canRedo, drawingEl, selRect, interaction, isSpace, held>>
    /\ Flush

\* Faulty variant: a property update that draws the element afresh.
UpdatedElementReseeded(el, fontSize) ==
    [el EXCEPT !.seed = el.seed + 1]

\* handlePropertyChange's map body for a selected element: { ...el, ...updates },
\* and a text re-measured when the update carries a font size. fontSize 0
\* stands for an update of style keys only, which the scene model leaves out.
UpdatedElement(el, fontSize) ==
    IF fontSize = 0 THEN el
    ELSE IF el.type = "text"
    THEN LET m == MeasureText(el.text, fontSize)
         IN [el EXCEPT !.fontSize = fontSize, !.width = m.width, !.height = m.height]
    ELSE [el EXCEPT !.fontSize = fontSize]

\* handlePropertyChange(updates), from the properties panel.
\* Faulty variant: a property change that does not push.
HandlePropertyChangeNoPush(fontSize) ==
    /\ IF stateRef.selectedIds # {}
       THEN elements' = [i \in 1 .. Len(stateRef.elements) |->
                            IF stateRef.elements[i].id \in stateRef.selectedIds
                            THEN UpdatedElement(stateRef.elements[i], fontSize)
                            ELSE stateRef.elements[i]]
       ELSE UNCHANGED elements
    /\ NoPush
    /\ UNCHANGED <<tool, selectedIds, viewport, editingTextId, drawingEl, selRect,
                   interaction, isSpace, held>>
    /\ Flush

HandlePropertyChange(fontSize) ==
    /\ IF stateRef.selectedIds # {}
       THEN /\ elements' = [i \in 1 .. Len(stateRef.elements) |->
                               IF stateRef.elements[i].id \in stateRef.selectedIds
                               THEN UpdatedElement(stateRef.elements[i], fontSize)
                               ELSE stateRef.elements[i]]
            /\ Push(elements')
       ELSE /\ UNCHANGED elements
            /\ NoPush
    /\ UNCHANGED <<tool, selectedIds, viewport, editingTextId, drawingEl, selRect,
                   interaction, isSpace, held>>
    /\ Flush

\* The textarea's blur, or Escape typed in it, with the textarea holding text.
TextareaCommit(text) ==
    /\ Editing
    /\ CommitTextEdit(text)
    /\ UNCHANGED <<tool, selectedIds, viewport, drawingEl, selRect, interaction,
                   isSpace, held>>
    /\ Flush

ClearCanvas ==
    /\ ~Editing
    /\ elements' = <<>>
    /\ selectedIds' = {}
    /\ Push(<<>>)
    /\ UNCHANGED <<tool, viewport, editingTextId, drawingEl, selRect, interaction,
                   isSpace, held>>
    /\ Flush

\* ------------------------------------------------- explored behaviours
\* The mirror shows the state of the last render.
Fresh == stateRef = Mirror(tool, elements, selectedIds, viewport, editingTextId)

\* No button is down and the last render is done: between two gestures.
Quiet == held = {} /\ Fresh

\* The part of the canvas the pointer positions span, and the part an
\* element can be dragged into from there.
Window == 10 .. 50
WideWindow == -30 .. 90
InWindow(els, W) == \A i \in 1 .. Len(els) : els[i].x \in W /\ els[i].y \in W

\* What the exploration keeps: at most n elements (the pending one
\* included) with their origin in the window W, at most MaxHist snapshots,
\* at most MaxPoints points in a pending stroke, and no drawing or text edit
\* started whose push would not fit.
BoundedIn(W, n) ==
    /\ Len(elements) + Len(drawingEl) <= n
    /\ Len(history.stack) <= MaxHist
    /\ InWindow(elements, W)
    /\ drawingEl # <<>> => Len(drawingEl[1].points) <= MaxPoints
    /\ (interaction.mode \in {"drawing", "freedrawing"} \/ editingTextId # NoId)
          => history.index + 2 <= MaxHist
Bounded == BoundedIn(Window, MaxElems)
BoundedWide == BoundedIn(WideWindow, MaxElems)
BoundedDraw == BoundedIn(Window, MaxDrawn)

\* The editor core: rectangles drawn, selected, moved, erased, deleted,
\* undone and redone with the primary button; keys between gestures, Escape
\* at any time; no resize handle grabbed.
Next ==
    \/ (Quiet /\ Undo)
    \/ (Quiet /\ Redo)
    \/ \E t \in CoreTools : (Quiet /\ SetTool(t))
    \/ \E p \in CorePoints, shift \in BOOLEAN :
          (Fresh /\ MouseDown(p, 0, shift, 1, "", 7)
                 /\ interaction'.mode # "resizing" /\ Bounded')
    \/ \E p \in CorePoints : (MouseMove(p) /\ Bounded')
    \/ (MouseUp(0) /\ Bounded')
    \/ Render
    \/ (Quiet /\ SelectAll)
    \/ (Quiet /\ DeleteKey /\ Bounded')
    \/ (Fresh /\ EscapeKey)
    \/ (Quiet /\ ClearCanvas /\ Bounded')

Spec == Init /\ [][Next]_vars

\* Drawing gestures of the box-like tools over four pointer positions. A
\* pointer-move of a drawing gesture writes drawingElRef only, so no render
\* is ever pending here.
NextDraw ==
    \/ \E t \in BoxTools : (Quiet /\ SetTool(t))
    \/ \E p \in DrawPoints : (Fresh /\ MouseDown(p, 0, FALSE, 1, "", 7) /\ BoundedDraw')
    \/ \E p \in DrawPoints : (MouseMove(p) /\ BoundedDraw')
    \/ (MouseUp(0) /\ BoundedDraw')
    \/ (Quiet /\ Undo)
    \/ (Fresh /\ EscapeKey)

SpecDraw == Init /\ [][NextDraw]_vars

\* Moving gestures: rectangles drawn, selected and dragged, also out of the
\* span of the pointer positions.
NextMove ==
    \/ \E t \in {"select", "rectangle"} : (Quiet /\ SetTool(t))
    \/ \E p \in CorePoints, shift \in BOOLEAN :
          (Fresh /\ MouseDown(p, 0, shift, 1, "", 7)
                 /\ interaction'.mode # "resizing" /\ BoundedWide')
    \/ \E p \in CorePoints : (MouseMove(p) /\ BoundedWide')
    \/ (MouseUp(0) /\ BoundedWide')
    \/ Render
    \/ (Quiet /\ SelectAll)
    \/ (Fresh /\ EscapeKey)

SpecMove == Init /\ [][NextMove]_vars

\* Text elements: created, edited, committed, selected, moved and deleted.
NextText ==
    \/ \E t \in TextTools : (Quiet /\ SetTool(t))
    \/ \E p \in CorePoints, detail \in {1, 2}, text \in Texts :
          (Fresh /\ MouseDown(p, 0, FALSE, detail, text, 7)
                 /\ interaction'.mode # "resizing" /\ Bounded')
    \/ \E p \in CorePoints : (MouseMove(p) /\ Bounded')
    \/ (MouseUp(0) /\ Bounded')
    \/ Render
    \/ \E text \in Texts : (Fresh /\ TextareaCommit(text) /\ Bounded')
    \/ (Quiet /\ Undo)
    \/ (Quiet /\ Redo)
    \/ (Quiet /\ DeleteKey /\ Bounded')
    \/ (Fresh /\ EscapeKey)

SpecText == Init /\ [][NextText]_vars

\* The viewport: wheel zooms and pans, key and button zooms and resets
\* between gestures, middle-button drags, over an empty scene, from zoom 1
\* and from the two
\* limits (reached from 1 by ctrl-wheel at the canvas origin, which leaves
\* the offsets 0). The exploration keeps the zoom within one step of these
\* three and the offsets near the origin, on fractions of small terms;
\* every pointer position, wheel delta and canvas centre is twice as far
\* down as across, which keeps offsetY at twice offsetX.
ZoomLevels ==
    LET steps == {Whole(1), WheelIn, WheelOut, KeyStep, Rat(20, 23), ButtonStep, Rat(5, 6)}
    IN {RMul(z, f) : z \in {Whole(1), MIN_ZOOM, MAX_ZOOM}, f \in steps}
OffsetDens == 1 .. 25
OffsetSpan == -12 .. 12
WheelPoints == {Pt(0, 0), Pt(20, 40)}
WheelNotches == {-100, 100}
WheelDeltas == {Pt(5, 10)}
PanPoints == {Pt(20, 40), Pt(23, 46)}
ViewBounded ==
    /\ viewport.zoom \in ZoomLevels
    /\ \A o \in {viewport.offsetX, viewport.offsetY} :
          o.d \in OffsetDens /\ (o.n \div o.d) \in OffsetSpan

InitView ==
    \E z \in {Whole(1), MIN_ZOOM, MAX_ZOOM} :
        /\ tool = "select"
        /\ elements = <<>>
        /\ selectedIds = {}
        /\ viewport = [zoom |-> z, offsetX |-> Whole(0), offsetY |-> Whole(0)]
        /\ editingTextId = NoId
        /\ history = [stack |-> <<<<>>>>, index |-> 0]
        /\ canUndo = FALSE
        /\ canRedo = FALSE
        /\ drawingEl = <<>>
        /\ selRect = <<>>
        /\ stateRef = Mirror("select", <<>>, {}, viewport, NoId)
        /\ interaction = Idle
        /\ isSpace = FALSE
        /\ held = {}

NextView ==
    \/ \E p \in WheelPoints, deltaY \in WheelNotches :
          (Quiet /\ HandleWheel(p, TRUE, 0, deltaY) /\ ViewBounded')
    \/ \E p \in WheelPoints, d \in WheelDeltas :
          (Quiet /\ HandleWheel(p, FALSE, d.x, d.y) /\ ViewBounded')
    \/ \E in \in BOOLEAN : (Quiet /\ ZoomKey(in) /\ ViewBounded')
    \/ \E in \in BOOLEAN : (Quiet /\ ZoomButton(in) /\ ViewBounded')
    \/ (Quiet /\ ResetView)
    \/ \E p \in PanPoints : (Fresh /\ MouseDown(p, 1, FALSE, 1, "", 7))
    \/ \E p \in PanPoints : (MouseMove(p) /\ ViewBounded')
    \/ MouseUp(1)
    \/ Render

SpecView == InitView /\ [][NextView]_vars

\* ---------------------------------------------------------- properties
Last(seq) == seq[Len(seq)]
PosOf(els, id) == [x |-> FindById(els, id).x, y |-> FindById(els, id).y]

\* C1: with scenes A then B pushed one after the other (A below the cursor, B
\* at the cursor), undo() leaves the stack as it is, moves the cursor onto A
\* and makes the live scene equal A (elements, order, geometry, deleted
\* flags); redo() from there moves the cursor back onto B and makes the live
\* scene equal B.
UndoRedoRoundTrip ==
    [][/\ (Undo /\ history.index > 0) =>
            /\ history'.stack = history.stack
            /\ history'.index = history.index - 1
            /\ elements' = history.stack[history.index]
       /\ (Redo /\ history.index < Len(history.stack) - 1) =>
            /\ history'.stack = history.stack
            /\ history'.index = history.index + 1
            /\ elements' = history.stack[history.index + 2]]_vars

\* Two different non-trivial pushes A, B with an undo done: the live scene is
\* A and B is still above the cursor for redo.
UndoneToA ==
    /\ Len(history.stack) = 3
    /\ history.index = 1
    /\ history.stack[2] # <<>>
    /\ history.stack[3] # history.stack[2]
    /\ elements = history.stack[2]
    /\ canRedo

\* C2: a push (any step other than undo / redo that changes the history)
\* leaves the old prefix [0..cursor] followed by exactly one new snapshot,
\* with the cursor on that last snapshot; redo() with the cursor on the last
\* snapshot changes neither the scene nor the history.
PushDiscardsRedoBranch ==
    [][/\ (history' # history /\ ~Undo /\ ~Redo) =>
            /\ Len(history'.stack) = history.index + 2
            /\ SubSeq(history'.stack, 1, history.index + 1)
                 = SubSeq(history.stack, 1, history.index + 1)
            /\ history'.index = Len(history'.stack) - 1
            /\ canRedo' = FALSE
       /\ (Redo /\ history.index = Len(history.stack) - 1) =>
            UNCHANGED <<elements, history>>]_vars

\* A push was made below the top: the element with id 2 was drawn, undone and
\* its snapshot replaced by one holding id 3.
BranchDiscarded ==
    /\ Len(history.stack) = 3
    /\ history.index = 2
    /\ 3 \in ElemIds(history.stack[3])
    /\ \A i \in 1 .. 3 : 2 \notin ElemIds(history.stack[i])

\* C3: the history stack is never empty and the cursor is an index into it.
CursorValid ==
    /\ Len(history.stack) >= 1
    /\ history.index >= 0
    /\ history.index < Len(history.stack)

\* Pushes followed by undos down to the first snapshot.
UndoneToBottom == Len(history.stack) >= 3 /\ history.index = 0

\* C4: undo() with the cursor at 0 and redo() with the cursor on the last
\* snapshot change neither the live scene, nor the selection, nor the stack,
\* nor the cursor.
ExhaustedUndoRedoNoOp ==
    [][/\ (Undo /\ history.index = 0) =>
            UNCHANGED <<elements, selectedIds, history, interaction>>
       /\ (Redo /\ history.index = Len(history.stack) - 1) =>
            UNCHANGED <<elements, selectedIds, history, interaction>>]_vars

\* Between gestures with a selection and the cursor on the last snapshot,
\* where redo() has nothing to redo.
RedoExhaustedWithSelection ==
    /\ Quiet
    /\ history.index = Len(history.stack) - 1
    /\ Len(history.stack) > 1
    /\ selectedIds # {}

\* C5: whenever no gesture is in progress and no text is being edited, the
\* live scene is the snapshot at the cursor.
IdleSceneIsSnapshot ==
    (interaction.mode = "idle" /\ editingTextId = NoId)
        => elements = Snapshot(history, history.index)

\* C6: the selection holds only ids of elements that are in the live scene
\* and not soft-deleted.
SelectionLive ==
    selectedIds \subseteq
        {elements[i].id : i \in {j \in 1 .. Len(elements) : ~elements[j].isDeleted}}

\* C7: the selection is empty after a tool change to a drawing tool, after a
\* select-tool pointer-down on empty space, and after Escape.
DrawingTools == ShapeTools \cup {"freedraw", "text"}
SelectionClearedOnToolChange ==
    [][/\ (\E t \in DrawingTools : tool # t /\ SetTool(t)) => selectedIds' = {}
       /\ (/\ \E p \in CorePoints, shift \in BOOLEAN : MouseDown(p, 0, shift, 1, "", 7)
           /\ tool = "select"
           /\ interaction'.mode = "selecting") => selectedIds' = {}
       /\ EscapeKey => selectedIds' = {}]_vars

\* C8: in a box-like drawing gesture the start is the pointer-down point,
\* every pointer-move to (x2, y2) leaves the pending element with
\* x = min(x1, x2), y = min(y1, y2), width = |x2 - x1|, height = |y2 - y1|,
\* and pointer-up commits the pending element as it is.
BoxNormalized ==
    [][/\ \A p \in DrawPoints :
            (MouseDown(p, 0, FALSE, 1, "", 7) /\ interaction'.mode = "drawing") =>
                /\ interaction'.startX = ClientToWorld(p, stateRef.viewport).x
                /\ interaction'.startY = ClientToWorld(p, stateRef.viewport).y
       /\ \A p \in DrawPoints :
            (MouseMove(p) /\ interaction.mode = "drawing" /\ drawingEl # <<>>) =>
                LET x1 == interaction.startX
                    y1 == interaction.startY
                    x2 == ClientToWorld(p, stateRef.viewport).x
                    y2 == ClientToWorld(p, stateRef.viewport).y
                    el == drawingEl'[1]
                IN /\ el.x = (IF x1 < x2 THEN x1 ELSE x2)
                   /\ el.y = (IF y1 < y2 THEN y1 ELSE y2)
                   /\ el.width = (IF x2 >= x1 THEN x2 - x1 ELSE x1 - x2)
                   /\ el.height = (IF y2 >= y1 THEN y2 - y1 ELSE y1 - y2)
                   /\ el.width >= 0 /\ el.height >= 0
       /\ (MouseUp(0) /\ interaction.mode = "drawing" /\ elements' # elements) =>
                elements' = Append(elements, drawingEl[1])]_vars

\* The drag from (50,50) to (10,10): the pending element is {10,10,40,40}.
DraggedUpLeft ==
    /\ interaction.mode = "drawing"
    /\ interaction.startX = 50 /\ interaction.startY = 50
    /\ drawingEl # <<>>
    /\ drawingEl[1].x = 10 /\ drawingEl[1].y = 10
    /\ drawingEl[1].width = 40 /\ drawingEl[1].height = 40

\* C9: at pointer-up of a box-like drawing gesture, a pending element whose
\* width and height are both <= 2 is dropped with the scene, the selection
\* and the history unchanged; any other pending element is appended to the
\* scene, is the sole selection, and exactly one snapshot (the new scene) is
\* pushed.
TinyDrawingDiscarded ==
    [][(MouseUp(0) /\ interaction.mode = "drawing" /\ drawingEl # <<>>) =>
          LET el == drawingEl[1]
          IN /\ drawingEl' = <<>>
             /\ interaction'.mode = "idle"
             /\ IF el.width <= 2 /\ el.height <= 2
                THEN UNCHANGED <<elements, selectedIds, history>>
                ELSE /\ elements' = Append(elements, el)
                     /\ selectedIds' = {el.id}
                     /\ Len(history'.stack) = history.index + 2
                     /\ history'.index = history.index + 1
                     /\ Last(history'.stack) = elements']_vars

\* A pending element of exactly 2 x 2, after an undone commit.
PendingTwoByTwo ==
    /\ interaction.mode = "drawing"
    /\ drawingEl # <<>>
    /\ drawingEl[1].width = 2 /\ drawingEl[1].height = 2
    /\ Len(history.stack) = 2 /\ history.index = 0

\* C10: a moving gesture captures, at pointer-down, the positions the
\* elements to move have then; every pointer-move leaves each of them at its
\* captured position plus (pointer - gesture start), leaves the captured
\* positions and the start as they are, and leaves every other element as it
\* was.
MoveFromCaptured ==
    [][/\ \A p \in CorePoints, shift \in BOOLEAN :
            (MouseDown(p, 0, shift, 1, "", 7) /\ interaction'.mode = "moving") =>
                \A id \in DOMAIN interaction'.origPositions :
                    interaction'.origPositions[id] = PosOf(elements, id)
       /\ \A p \in CorePoints :
            (MouseMove(p) /\ interaction.mode = "moving") =>
                LET w == ClientToWorld(p, stateRef.viewport)
                    dx == w.x - interaction.startX
                    dy == w.y - interaction.startY
                    orig == interaction.origPositions
                IN /\ interaction' = interaction
                   /\ Len(elements') = Len(elements)
                   /\ \A i \in 1 .. Len(elements) :
                        IF elements[i].id \in DOMAIN orig
                        THEN /\ elements'[i].x = orig[elements[i].id].x + dx
                             /\ elements'[i].y = orig[elements[i].id].y + dy
                             /\ [elements'[i] EXCEPT !.x = 0, !.y = 0]
                                  = [elements[i] EXCEPT !.x = 0, !.y = 0]
                        ELSE elements'[i] = elements[i]]_vars

\* Mid-gesture with one of two elements moved 40 right and 40 down from its
\* captured position and the other where it was.
MovedOneOfTwo ==
    /\ interaction.mode = "moving"
    /\ Len(elements) = 2
    /\ DOMAIN interaction.origPositions = {elements[2].id}
    /\ elements[2].x = interaction.origPositions[elements[2].id].x + 40
    /\ elements[2].y = interaction.origPositions[elements[2].id].y + 40
    /\ elements[1].x = 10 /\ ~elements[1].isDeleted

\* The rectangles the pointer positions of the core span as queries.
CoreRects ==
    {NormalizeRect(a.x, a.y, b.x, b.y) : a \in CorePoints, b \in CorePoints}

\* The step is a soft delete: the Delete key with a selection, or an eraser
\* pointer-down that hits an element.
SoftDeleteStep ==
    \/ DeleteKey /\ stateRef.selectedIds # {}
    \/ /\ \E p \in CorePoints, shift \in BOOLEAN : MouseDown(p, 0, shift, 1, "", 7)
       /\ tool = "eraser"
       /\ history' # history

\* C11: a soft delete leaves the scene sequence as long as it was, every
\* element at its index and unchanged but for isDeleted = TRUE on the
\* deleted ones, and the snapshots up to the cursor as they were, the
\* deleted element not deleted in any that holds it; in every state no
\* deleted element is returned by getElementAtPoint or getElementsInRect,
\* and getSelectionBounds is what it is for the live elements alone.
SoftDeleteKeepsPlace ==
    /\ [](/\ \A p \in CorePoints :
               HitIndex(elements, p.x, p.y) # 0
                  => ~elements[HitIndex(elements, p.x, p.y)].isDeleted
          /\ \A r \in CoreRects :
               LET found == GetElementsInRect(elements, r.x, r.y, r.width, r.height)
               IN \A i \in 1 .. Len(found) : ~found[i].isDeleted
          /\ LET Live(e) == ~e.isDeleted
             IN GetSelectionBounds(elements, ElemIds(elements))
                  = GetSelectionBounds(SelectSeq(elements, Live), ElemIds(elements)))
    /\ [][SoftDeleteStep =>
            /\ Len(elements') = Len(elements)
            /\ \E i \in 1 .. Len(elements) : ~elements[i].isDeleted /\ elements'[i].isDeleted
            /\ \A i \in 1 .. Len(elements) :
                 /\ [elements'[i] EXCEPT !.isDeleted = FALSE]
                      = [elements[i] EXCEPT !.isDeleted = FALSE]
                 /\ elements[i].isDeleted => elements'[i].isDeleted
            /\ SubSeq(history'.stack, 1, history.index + 1)
                 = SubSeq(history.stack, 1, history.index + 1)
            /\ \A k \in 1 .. history.index + 1 : \A j \in 1 .. Len(history.stack[k]) :
                 \A i \in 1 .. Len(elements) :
                    (~elements[i].isDeleted /\ elements'[i].isDeleted
                       /\ history.stack[k][j].id = elements[i].id)
                          => ~history'.stack[k][j].isDeleted
            /\ Last(history'.stack) = elements']_vars

\* A deleted rectangle under the pointer position (10,10), still live in the
\* snapshot below the cursor.
DeletedUnderPointer ==
    /\ history.index >= 1
    /\ \E i \in 1 .. Len(elements) :
          /\ elements[i].isDeleted
          /\ IsPointInElement(10, 10, elements[i], HIT_THRESHOLD)
          /\ Len(history.stack[history.index]) >= i
          /\ ~history.stack[history.index][i].isDeleted
          /\ history.stack[history.index + 1][i].isDeleted

\* ------------------------------------------------- resizing, mid-gesture
\* The boxes a resize starts from and the pointer deltas applied to them.
ResizeSizes == {0, 40, 100}
ResizeBoxes == {[x |-> 10, y |-> 10, width |-> w, height |-> h] :
                   w \in ResizeSizes, h \in ResizeSizes}
ResizeSteps == {-150, -10, 0, 10}
ResizeDeltas == {Pt(dx, dy) : dx \in ResizeSteps, dy \in ResizeSteps}
HandleSet == {Handles[i] : i \in 1 .. Len(Handles)}

\* The point of the box b the handle h sits at.
HandleAnchor(h, b) ==
    Pt(IF h \in {"nw", "sw", "w"} THEN b.x
       ELSE IF h \in {"n", "s"} THEN b.x + (b.width \div 2) ELSE b.x + b.width,
       IF h \in {"nw", "n", "ne"} THEN b.y
       ELSE IF h \in {"e", "w"} THEN b.y + (b.height \div 2) ELSE b.y + b.height)

\* One rectangle, drawn and selected, with one of its handles just grabbed.
InitResize ==
    \E b \in ResizeBoxes, h \in HandleSet :
        LET el == [CreateElement("rectangle", 1, b.x, b.y, 7)
                      EXCEPT !.width = b.width, !.height = b.height]
        IN /\ tool = "select"
           /\ elements = <<el>>
           /\ selectedIds = {1}
           /\ viewport = HomeView
           /\ editingTextId = NoId
           /\ history = [stack |-> <<<<>>, <<el>>>>, index |-> 1]
           /\ canUndo = TRUE
           /\ canRedo = FALSE
           /\ drawingEl = <<>>
           /\ selRect = <<>>
           /\ stateRef = Mirror("select", <<el>>, {1}, viewport, NoId)
           /\ interaction = [mode |-> "resizing", handle |-> h,
                             startX |-> HandleAnchor(h, b).x,
                             startY |-> HandleAnchor(h, b).y,
                             origBounds |-> b, elementId |-> 1]
           /\ isSpace = FALSE
           /\ held = {0}

\* The pointer moved by d from where the gesture started.
MovedBy(d) == Pt(interaction.startX + d.x, interaction.startY + d.y)

NextResize ==
    \/ \E d \in ResizeDeltas : MouseMove(MovedBy(d))
    \/ Render
    \/ MouseUp(0)

SpecResize == InitResize /\ [][NextResize]_vars

\* C12: a resizing pointer-move by (dx, dy) leaves the target with
\* {x + dx, y + dy, w - dx, h - dy} of the captured bounds for handle nw and
\* with {x, y, w + dx, h + dy} for handle se, whenever that width and height
\* are both >= 2.
ResizeCorners ==
    [][\A d \in ResizeDeltas :
          (interaction.mode = "resizing" /\ MouseMove(MovedBy(d))) =>
             LET o == interaction.origBounds
                 e == FindById(elements', interaction.elementId)
                 got == [x |-> e.x, y |-> e.y, width |-> e.width, height |-> e.height]
             IN /\ (interaction.handle = "nw"
                      /\ o.width - d.x >= 2 /\ o.height - d.y >= 2)
                    => got = [x |-> o.x + d.x, y |-> o.y + d.y,
                              width |-> o.width - d.x, height |-> o.height - d.y]
                /\ (interaction.handle = "se"
                      /\ o.width + d.x >= 2 /\ o.height + d.y >= 2)
                    => got = [x |-> o.x, y |-> o.y,
                              width |-> o.width + d.x, height |-> o.height + d.y]]_vars

\* The 100 x 100 box with handle nw dragged by (10,10): 90 x 90, shifted by
\* (10,10).
ShrunkFromNW ==
    /\ interaction.mode = "resizing"
    /\ interaction.handle = "nw"
    /\ interaction.origBounds = [x |-> 10, y |-> 10, width |-> 100, height |-> 100]
    /\ elements[1].x = 20 /\ elements[1].y = 20
    /\ elements[1].width = 90 /\ elements[1].height = 90

BoxAt(id, x, y, w, h, del) ==
    [CreateElement("rectangle", id, x, y, 7)
        EXCEPT !.width = w, !.height = h, !.isDeleted = del]
LineAt(id, x, y, ex, ey, del) ==
    [CreateElement("line", id, x, y, 7)
        EXCEPT !.points = <<Pt(0, 0), Pt(ex, ey)>>, !.isDeleted = del]

\* The elements a queried scene is made of: a small box, a wide box, a big
\* box and a line running up and to the left, each live or soft-deleted.
QueryElems(id) ==
    UNION {{BoxAt(id, 20, 20, 10, 10, del), BoxAt(id, 20, 20, 40, 10, del),
            BoxAt(id, 10, 10, 40, 40, del), LineAt(id, 40, 40, -20, -10, del)}
              : del \in BOOLEAN}
QueryPoints == {Pt(5, 5), Pt(25, 25), Pt(35, 35), Pt(50, 50), Pt(55, 25), Pt(70, 70)}

\* A scene of two elements, nothing selected, no gesture in progress.
InitQuery ==
    \E e1 \in QueryElems(1), e2 \in QueryElems(2) :
        /\ tool = "select"
        /\ elements = <<e1, e2>>
        /\ selectedIds = {}
        /\ viewport = HomeView
        /\ editingTextId = NoId
        /\ history = [stack |-> <<<<>>, <<e1, e2>>>>, index |-> 1]
        /\ canUndo = TRUE
        /\ canRedo = FALSE
        /\ drawingEl = <<>>
        /\ selRect = <<>>
        /\ stateRef = Mirror("select", <<e1, e2>>, {}, viewport, NoId)
        /\ interaction = Idle
        /\ isSpace = FALSE
        /\ held = {}

\* Clicks with the select tool and the eraser, and rubber bands.
NextQuery ==
    \/ \E t \in {"select", "eraser"} : (Quiet /\ SetTool(t))
    \/ \E p \in QueryPoints :
          (Fresh /\ MouseDown(p, 0, FALSE, 1, "", 7) /\ Len(history'.stack) <= MaxHist)
    \/ \E p \in QueryPoints : (interaction.mode = "selecting" /\ MouseMove(p))
    \/ (MouseUp(0) /\ Len(history'.stack) <= MaxHist)
    \/ Render

SpecQuery == InitQuery /\ [][NextQuery]_vars

\* C14: getElementsInRect returns, in scene order, exactly the elements that
\* are not deleted and whose bounds lie wholly inside the rectangle; the
\* rubber band selects exactly their ids, none of an element that is deleted
\* or reaches outside the rectangle.
RubberBandWhollyInside ==
    [][\A p \in QueryPoints :
          (interaction.mode = "selecting" /\ MouseMove(p)) =>
             LET r == selRect'[1]
                 els == stateRef.elements
                 Inside(e) ==
                    LET b == GetElementBounds(e)
                    IN /\ ~e.isDeleted
                       /\ b.x >= r.x /\ b.y >= r.y
                       /\ b.x + b.width <= r.x + r.width
                       /\ b.y + b.height <= r.y + r.height
             IN /\ GetElementsInRect(els, r.x, r.y, r.width, r.height)
                     = SelectSeq(els, Inside)
                /\ selectedIds' = {els[i].id : i \in {j \in 1 .. Len(els) : Inside(els[j])}}
                /\ \A i \in 1 .. Len(els) :
                     LET b == GetElementBounds(els[i])
                     IN (b.x < r.x \/ b.y < r.y \/ b.x + b.width > r.x + r.width
                           \/ b.y + b.height > r.y + r.height \/ els[i].isDeleted)
                          => els[i].id \notin selectedIds']_vars

\* The rubber band from (5,5) to (35,35) over the small box and the big box:
\* the small box is inside and selected, the big box reaches out and is not.
BandTakesSmallBox ==
    /\ interaction.mode = "selecting"
    /\ selRect = <<[x |-> 5, y |-> 5, width |-> 30, height |-> 30]>>
    /\ elements = <<BoxAt(1, 20, 20, 10, 10, FALSE), BoxAt(2, 10, 10, 40, 40, FALSE)>>
    /\ selectedIds = {1}

\* The non-deleted elements of els that contain the point.
LiveAt(els, x, y) ==
    {i \in 1 .. Len(els) :
        ~els[i].isDeleted /\ IsPointInElement(x, y, els[i], HIT_THRESHOLD)}

\* C15: getElementAtPoint returns the element of highest scene index among
\* the non-deleted ones containing the point, and nothing when there is
\* none; a select-tool pointer-down that grabs no resize handle selects that
\* element (alone, unless it was selected already), or starts a rubber band
\* when there is none, and an eraser pointer-down deletes exactly that
\* element.
HitIsTopmost ==
    /\ [](\A p \in QueryPoints :
             HitIndex(elements, p.x, p.y)
                = (IF LiveAt(elements, p.x, p.y) = {} THEN 0
                   ELSE SetMax(LiveAt(elements, p.x, p.y))))
    /\ [][\A p \in QueryPoints :
             (/\ interaction.mode = "idle"
              /\ MouseDown(p, 0, FALSE, 1, "", 7)
              /\ interaction'.mode # "resizing") =>
                LET live == LiveAt(elements, p.x, p.y)
                IN IF live = {}
                   THEN /\ elements' = elements
                        /\ tool = "select" =>
                              (selectedIds' = {} /\ interaction'.mode = "selecting")
                   ELSE /\ tool = "select" =>
                              (/\ elements[SetMax(live)].id \in selectedIds'
                               /\ elements[SetMax(live)].id \notin selectedIds
                                     => selectedIds' = {elements[SetMax(live)].id}
                               /\ interaction'.mode = "moving")
                        /\ tool = "eraser" =>
                              \A i \in 1 .. Len(elements) :
                                 elements'[i].isDeleted
                                    = (elements[i].isDeleted \/ i = SetMax(live))]_vars

\* A click at (25,25) on the big box lying under the small box: the small
\* box, on top, is the one selected.
ClickTakesTop ==
    /\ interaction.mode = "moving"
    /\ interaction.startX = 25 /\ interaction.startY = 25
    /\ elements = <<BoxAt(1, 10, 10, 40, 40, FALSE), BoxAt(2, 20, 20, 10, 10, FALSE)>>
    /\ selectedIds = {2}

\* C16: a zoom around the screen point (cx, cy), by ctrl-wheel at the
\* pointer or by key or button at the canvas centre, keeps the world point
\* under (cx, cy) where it was: cx / zoom' + offsetX' = cx / zoom + offsetX,
\* and the same down, with zoom' the requested zoom clamped to the limits.
ZoomKeepsPoint ==
    [][LET Kept(c) ==
              ScreenToWorld(RPt(c), viewport') = ScreenToWorld(RPt(c), stateRef.viewport)
           Asked(f) == viewport'.zoom = Clamped(RMul(stateRef.viewport.zoom, f))
       IN /\ \A p \in WheelPoints, deltaY \in WheelNotches :
               HandleWheel(p, TRUE, 0, deltaY) =>
                  Kept(p) /\ Asked(IF deltaY < 0 THEN WheelIn ELSE WheelOut)
          /\ \A in \in BOOLEAN :
               ZoomKey(in) => Kept(CanvasCenter) /\ Asked(IF in THEN KeyStep ELSE Rat(20, 23))
          /\ \A in \in BOOLEAN :
               ZoomButton(in) =>
                  Kept(CanvasCenter) /\ Asked(IF in THEN ButtonStep ELSE Rat(5, 6))]_vars

\* Zoom 1 taken to 1.1 by a wheel notch at (20, 40): world point (20, 40)
\* is still under the pointer.
ZoomedAtPointer ==
    /\ viewport = [zoom |-> Rat(11, 10), offsetX |-> Rat(20, 11), offsetY |-> Rat(40, 11)]
    /\ ScreenToWorld(RPt(Pt(20, 40)), viewport) = RPt(Pt(20, 40))

\* C17: screen-to-world is the exact inverse of world-to-screen at every
\* viewport: (p - offset) * zoom taken back by s / zoom + offset is p, and
\* s / zoom + offset taken forth by (w - offset) * zoom is s.
WorldPoints == {Pt(10, 10), Pt(-7, 13), Pt(50, 0)}
ScreenWorldInverse ==
    [](\A vp \in {viewport, stateRef.viewport} :
         (RLeq(MIN_ZOOM, vp.zoom) /\ RLeq(vp.zoom, MAX_ZOOM)) =>
            \A p \in WorldPoints :
               /\ ScreenToWorld(WorldToScreen(RPt(p), vp), vp) = RPt(p)
               /\ WorldToScreen(ScreenToWorld(RPt(p), vp), vp) = RPt(p))

\* A zoomed, shifted viewport that puts world point (10, 10) between pixels.
OffGridOnScreen ==
    /\ viewport.zoom = KeyStep
    /\ viewport.offsetX = Rat(120, 23)
    /\ WorldToScreen(RPt(Pt(10, 10)), viewport).x = Rat(11, 2)
    /\ ScreenToWorld(WorldToScreen(RPt(Pt(10, 10)), viewport), viewport) = RPt(Pt(10, 10))

\* C18: the zoom of the viewport, pending or rendered, lies in
\* [MIN_ZOOM, MAX_ZOOM] = [0.1, 20] after any wheel zooms, key and button
\* zooms, pans and resets.
ZoomWithinLimits ==
    [](\A vp \in {viewport, stateRef.viewport} :
          RLeq(MIN_ZOOM, vp.zoom) /\ RLeq(vp.zoom, MAX_ZOOM))

\* Zoom 18 asked to 21.6 by the + button and held at 20.
HeldAtMaxZoom ==
    /\ viewport = [zoom |-> MAX_ZOOM, offsetX |-> Rat(1, 9), offsetY |-> Rat(2, 9)]
    /\ stateRef.viewport = viewport

\* Every way a width or height is written: a box, a line, a free stroke and
\* a text drawn, committed, selected, moved and resized by its handles.
ShapeTools5 == {"select", "rectangle", "line", "freedraw", "text"}
BoundedShape == BoundedIn(WideWindow, MaxDrawn)
NextShape ==
    \/ \E t \in ShapeTools5 : (Quiet /\ SetTool(t))
    \/ \E p \in CorePoints, text \in Texts :
          (Fresh /\ MouseDown(p, 0, FALSE, 1, text, 7) /\ BoundedShape')
    \/ \E p \in CorePoints : (MouseMove(p) /\ BoundedShape')
    \/ (MouseUp(0) /\ BoundedShape')
    \/ Render
    \/ \E text \in Texts : (Fresh /\ TextareaCommit(text) /\ BoundedShape')

SpecShape == Init /\ [][NextShape]_vars

\* C19: every element of the scene, shown or pending, has bounds of
\* non-negative width and height: a box-like element stores width >= 0 and
\* height >= 0 after drawing, resizing and text measurement, and the bounds
\* of a path-like element are max - min of its points.
NonNegativeBounds ==
    [](\A els \in {elements, stateRef.elements, drawingEl} :
          \A i \in 1 .. Len(els) :
             LET e == els[i]
                 b == GetElementBounds(e)
             IN /\ b.width >= 0 /\ b.height >= 0
                /\ e.type \notin PathTypes => e.width >= 0 /\ e.height >= 0)

\* A rectangle resized from its south-east handle past its north-west
\* corner: held at the least size, not turned inside out.
ResizedPastCorner ==
    /\ interaction.mode = "resizing" /\ interaction.handle = "se"
    /\ Len(elements) = 1 /\ elements[1].type = "rectangle"
    /\ interaction.origBounds.width > MIN_SIZE
    /\ elements[1].width = MIN_SIZE /\ elements[1].height = MIN_SIZE

SeedTools == {"select", "rectangle", "text"}
SeedInputs == {7, 9}
FontSizes == {0, 28}
NextSeed ==
    \/ \E t \in SeedTools : (Quiet /\ SetTool(t))
    \/ \E p \in CorePoints, text \in Texts, seed \in SeedInputs :
          (Fresh /\ MouseDown(p, 0, FALSE, 1, text, seed) /\ BoundedShape')
    \/ \E p \in CorePoints : (MouseMove(p) /\ BoundedShape')
    \/ (MouseUp(0) /\ BoundedShape')
    \/ Render
    \/ \E text \in Texts : (Fresh /\ TextareaCommit(text) /\ BoundedShape')
    \/ \E fs \in FontSizes : (Quiet /\ HandlePropertyChange(fs) /\ BoundedShape')
    \/ (Quiet /\ Undo)
    \/ (Quiet /\ Redo)

SpecSeed == Init /\ [][NextSeed]_vars

\* The (id, seed) pairs of every element held anywhere: the scene, its
\* mirror, the pending element and the snapshots.
SeedPairs ==
    LET Of(els) == {<<els[i].id, els[i].seed>> : i \in 1 .. Len(els)}
    IN Of(elements) \cup Of(stateRef.elements) \cup Of(drawingEl)
       \cup UNION {Of(history.stack[i]) : i \in 1 .. Len(history.stack)}

\* C21: the seed of an element never changes after creation: every holder
\* of an element id (pending element, scene, mirror, every snapshot) has it
\* with one seed, and a step (move, resize, property change, text commit,
\* commit of the pending element, undo, redo) keeps the seed of every id
\* that it keeps.
SeedStable ==
    /\ [](\A a, b \in SeedPairs : a[1] = b[1] => a[2] = b[2])
    /\ [][\A a \in SeedPairs, b \in SeedPairs' : a[1] = b[1] => a[2] = b[2]]_vars

\* An element of seed 9 restyled and the restyling undone: scene and
\* snapshots hold it with two font sizes and one seed.
RestyledAndUndone ==
    /\ Len(history.stack) = 3 /\ history.index = 1
    /\ Len(elements) = 1 /\ elements[1].seed = 9
    /\ Len(history.stack[3]) = 1
    /\ history.stack[3][1].id = elements[1].id
    /\ history.stack[3][1].fontSize = 28
    /\ elements[1].fontSize # 28

\* Events that arrive during a gesture: a second button pressed or released,
\* Delete and Escape typed with a button down, over boxes and free strokes
\* drawn, selected, moved, resized and rubber-banded, and pans that leave
\* the viewport where it is.
GestureTools == {"select", "rectangle", "freedraw"}
SizeSpan == 0 .. 40
BoundedGesture ==
    /\ BoundedIn(Window, MaxDrawn)
    /\ \A i \in 1 .. Len(elements) :
          elements[i].width \in SizeSpan /\ elements[i].height \in SizeSpan
    /\ viewport = HomeView
NextGesture ==
    \/ \E t \in GestureTools : (Quiet /\ SetTool(t))
    \/ \E p \in CorePoints, button \in Buttons :
          (Fresh /\ MouseDown(p, button, FALSE, 1, "", 7) /\ BoundedGesture')
    \/ \E p \in CorePoints : (MouseMove(p) /\ BoundedGesture')
    \/ \E button \in Buttons : (MouseUp(button) /\ BoundedGesture')
    \/ Render
    \/ (Fresh /\ DeleteKey /\ BoundedGesture')
    \/ (Fresh /\ EscapeKey)

SpecGesture == Init /\ [][NextGesture]_vars

\* C22: the pending element and the interaction mode belong to one gesture:
\* a pending element exists only in mode drawing or freedrawing, and a
\* rubber-band rectangle only in mode selecting, also when a second button
\* goes down during a gesture.
PendingMatchesMode ==
    /\ drawingEl # <<>> => interaction.mode \in {"drawing", "freedrawing"}
    /\ selRect # <<>> => interaction.mode = "selecting"

\* C23: Escape typed in any interaction mode cancels totally: the mode
\* becomes idle, the pending element and the rubber band are cleared, the
\* selection is emptied, the history is left as it is, and the scene is
\* the one of the gesture's pointer-down: moved elements are back at their
\* captured positions, a resized element has its captured bounds, and the
\* other modes leave the scene as it is.
EscapeCancelsTotally ==
    [][(EscapeKey /\ interaction.mode # "idle") =>
          /\ interaction'.mode = "idle"
          /\ drawingEl' = <<>> /\ selRect' = <<>>
          /\ selectedIds' = {}
          /\ history' = history
          /\ Len(elements') = Len(elements)
          /\ \A i \in 1 .. Len(elements') :
                LET e == elements'[i]
                IN IF interaction.mode = "moving" /\ e.id \in DOMAIN interaction.origPositions
                   THEN [x |-> e.x, y |-> e.y] = interaction.origPositions[e.id]
                   ELSE IF interaction.mode = "resizing" /\ e.id = interaction.elementId
                   THEN GetElementBounds(e) = interaction.origBounds
                   ELSE e = elements[i]]_vars

\* C27: Delete / Backspace acts only in mode idle: there, with a non-empty
\* selection, it soft-deletes exactly the selected elements, empties the
\* selection and pushes one snapshot; during a gesture it changes neither
\* the scene nor the history.
DeleteOnlyWhenIdle ==
    [][DeleteKey =>
          IF interaction.mode = "idle"
          THEN stateRef.selectedIds # {} =>
                  /\ elements' = SoftDelete(stateRef.elements, stateRef.selectedIds)
                  /\ selectedIds' = {}
                  /\ Len(history'.stack) = history.index + 2
                  /\ Last(history'.stack) = elements'
          ELSE UNCHANGED <<elements, history>>]_vars

\* C24: handling the same pointer-move event twice in a row leaves the state
\* the first handling left, in every gesture mode: the handler run again on
\* the state after a pointer move changes nothing.
MoveIdempotent ==
    [][\A p \in CorePoints :
          MouseMove(p) =>
             HandledMove(p, interaction', stateRef',
                         Touched(viewport', drawingEl', selRect', selectedIds', elements'))
                = Touched(viewport', drawingEl', selRect', selectedIds', elements')]_vars

\* The same property outside a freehand stroke.
MoveIdempotentButFreedraw ==
    [][\A p \in CorePoints :
          (MouseMove(p) /\ interaction.mode # "freedrawing") =>
             HandledMove(p, interaction', stateRef',
                         Touched(viewport', drawingEl', selRect', selectedIds', elements'))
                = Touched(viewport', drawingEl', selRect', selectedIds', elements')]_vars

\* C25: the elements a moving gesture translates (the ids it captured at
\* pointer-down) are exactly the selection the pointer-down click leaves,
\* with shift held or not, on a selected or an unselected element.
MovedAreSelection ==
    [][\A p \in CorePoints, shift \in BOOLEAN :
          (MouseDown(p, 0, shift, 1, "", 7) /\ interaction'.mode = "moving") =>
             DOMAIN interaction'.origPositions = selectedIds']_vars

\* The same property for the clicks that are not a shift-click on an element
\* of the selection.
MovedAreSelectionButShiftOff ==
    [][\A p \in CorePoints, shift \in BOOLEAN :
          (/\ MouseDown(p, 0, shift, 1, "", 7) /\ interaction'.mode = "moving"
           /\ ~(shift /\ DOMAIN interaction'.origPositions \subseteq stateRef.selectedIds)) =>
             DOMAIN interaction'.origPositions = selectedIds']_vars

\* Clicks with the select tool, with and without shift, on scenes of two
\* elements; no drag.
NextClick ==
    \/ \E p \in QueryPoints, shift \in BOOLEAN :
          (Fresh /\ MouseDown(p, 0, shift, 1, "", 7))
    \/ (MouseUp(0) /\ Len(history'.stack) <= MaxHist)
    \/ (Quiet /\ SelectAll)
    \/ (Fresh /\ EscapeKey)

SpecClick == InitQuery /\ [][NextClick]_vars

\* C26: a select-tool click that lands on an element (no handle grabbed):
\* without shift on an unselected element the selection becomes exactly that
\* element; with shift the element's membership is toggled and every other
\* member stays; without shift on an already selected element the selection
\* is unchanged.
ClickSelects ==
    [][\A p \in QueryPoints, shift \in BOOLEAN :
          (MouseDown(p, 0, shift, 1, "", 7) /\ interaction'.mode = "moving") =>
             LET sel == stateRef.selectedIds
                 w == ClientToWorld(p, stateRef.viewport)
                 h == stateRef.elements[HitIndex(stateRef.elements, w.x, w.y)].id
             IN /\ (~shift /\ h \notin sel) => selectedIds' = {h}
                /\ shift => /\ (h \in selectedIds') <=> (h \notin sel)
                            /\ selectedIds' \ {h} = sel \ {h}
                /\ (~shift /\ h \in sel) => selectedIds' = sel]_vars

\* A shift-click has taken the top rectangle out of a selection of two.
ShiftClickToggledOut ==
    /\ interaction.mode = "moving"
    /\ DOMAIN interaction.origPositions = {1, 2}
    /\ selectedIds = {1}
    /\ held = {0}

\* The eraser and the select tool on scenes of two elements: clicks, pointer
\* moves with the button held or not, rubber bands, undo.
NextErase ==
    \/ \E t \in {"select", "eraser"} : (Quiet /\ SetTool(t))
    \/ \E p \in QueryPoints :
          (Fresh /\ MouseDown(p, 0, FALSE, 1, "", 7) /\ Len(history'.stack) <= MaxHist)
    \/ \E p \in QueryPoints : (interaction.mode \in {"idle", "selecting"} /\ MouseMove(p))
    \/ (MouseUp(0) /\ Len(history'.stack) <= MaxHist)
    \/ Render
    \/ (Quiet /\ Undo)

SpecErase == InitQuery /\ [][NextErase]_vars

\* C28: an eraser pointer-down soft-deletes exactly the topmost non-deleted
\* element under the point and pushes exactly one snapshot, the new scene,
\* without entering a gesture mode; when it hits nothing the scene and the
\* history stay as they are; with the eraser no gesture is ever in progress,
\* and a pointer move with the eraser changes neither scene nor history.
EraserDeletesOnce ==
    /\ [](tool = "eraser" => interaction.mode = "idle")
    /\ [][/\ \A p \in QueryPoints :
               (MouseDown(p, 0, FALSE, 1, "", 7) /\ stateRef.tool = "eraser") =>
                  LET live == LiveAt(elements, p.x, p.y)
                  IN /\ interaction' = interaction
                     /\ IF live = {}
                        THEN UNCHANGED <<elements, history>>
                        ELSE /\ elements' = [elements EXCEPT ![SetMax(live)].isDeleted = TRUE]
                             /\ history'.stack =
                                   Append(SubSeq(history.stack, 1, history.index + 1), elements')
                             /\ history'.index = history.index + 1
          /\ \A p \in QueryPoints :
               (MouseMove(p) /\ stateRef.tool = "eraser") => UNCHANGED <<elements, history>>]_vars

\* The eraser, button still down, has deleted the upper element of two and
\* pushed the scene it left.
ErasedUpperOfTwo ==
    /\ stateRef.tool = "eraser"
    /\ held = {0}
    /\ interaction.mode = "idle"
    /\ elements[2].isDeleted /\ ~elements[1].isDeleted
    /\ Len(history.stack) = 3 /\ history.index = 2
    /\ ~history.stack[2][2].isDeleted
    /\ history.stack[3] = elements
    /\ LiveAt(history.stack[2], 25, 25) = {1, 2}

\* ------------------------------------------------------------- panning
\* A scene of one rectangle, selected or not, seen at zoom 1 or at one of the
\* two zoom limits; panning with the middle button, the hand tool or the
\* space bar.
PanSpan == -30 .. 30
PanBounded == viewport.offsetX.n \in PanSpan
InitPan ==
    \E z \in {Whole(1), MIN_ZOOM, MAX_ZOOM}, sel \in {{}, {1}} :
        LET e1 == BoxAt(1, 10, 10, 40, 40, FALSE)
        IN /\ tool = "select"
           /\ elements = <<e1>>
           /\ selectedIds = sel
           /\ viewport = [zoom |-> z, offsetX |-> Whole(0), offsetY |-> Whole(0)]
           /\ editingTextId = NoId
           /\ history = [stack |-> <<<<>>, <<e1>>>>, index |-> 1]
           /\ canUndo = TRUE
           /\ canRedo = FALSE
           /\ drawingEl = <<>>
           /\ selRect = <<>>
           /\ stateRef = Mirror("select", <<e1>>, sel, viewport, NoId)
           /\ interaction = Idle
           /\ isSpace = FALSE
           /\ held = {}

NextPan ==
    \/ \E t \in {"select", "hand"} : (Quiet /\ SetTool(t))
    \/ \E down \in BOOLEAN : SpaceKey(down)
    \/ \E p \in PanPoints, button \in Buttons :
          (/\ Fresh
           /\ stateRef.tool = "hand" \/ button = 1 \/ isSpace
           /\ MouseDown(p, button, FALSE, 1, "", 7))
    \/ \E p \in PanPoints : (MouseMove(p) /\ PanBounded')
    \/ \E button \in Buttons : MouseUp(button)
    \/ Render

SpecPan == InitPan /\ [][NextPan]_vars

\* C29: a panning gesture changes only the viewport offset. Its pointer-down
\* captures the offset and the pointer position and changes neither
\* viewport, scene, selection nor history; each pointer-move leaves the zoom,
\* the scene, the selection and the history as they are and sets each offset
\* to the captured one minus (pointer - gesture start) / zoom; its pointer-up
\* changes none of them.
PanChangesOffsetOnly ==
    [][/\ \A p \in PanPoints, button \in Buttons :
            (MouseDown(p, button, FALSE, 1, "", 7) /\ interaction'.mode = "panning") =>
               /\ UNCHANGED <<viewport, elements, selectedIds, history>>
               /\ interaction'.origOffset = [x |-> viewport.offsetX, y |-> viewport.offsetY]
               /\ interaction'.startX = p.x /\ interaction'.startY = p.y
       /\ \A p \in PanPoints :
            (MouseMove(p) /\ interaction.mode = "panning") =>
               /\ UNCHANGED <<elements, selectedIds, history, interaction>>
               /\ viewport'.zoom = viewport.zoom
               /\ RMul(RSub(interaction.origOffset.x, viewport'.offsetX), viewport.zoom)
                     = Whole(p.x - interaction.startX)
               /\ RMul(RSub(interaction.origOffset.y, viewport'.offsetY), viewport.zoom)
                     = Whole(p.y - interaction.startY)
       /\ \A button \in Buttons :
            (MouseUp(button) /\ interaction.mode = "panning") =>
               UNCHANGED <<viewport, elements, selectedIds, history>>]_vars

\* Mid-pan at a zoom other than 1: the offset has left the captured one, the
\* rectangle is in the scene and selected.
PannedWhileZoomed ==
    /\ interaction.mode = "panning"
    /\ viewport.zoom # Whole(1)
    /\ viewport.offsetX # interaction.origOffset.x
    /\ interaction.origOffset.x # Whole(0)
    /\ selectedIds = {1}
    /\ Len(elements) = 1

\* ------------------------------------------------- viewport and history
\* The one-rectangle scenes of InitPan, panned with the middle button and
\* reset between edits that push (delete, restyle, clear), undo and redo.
NextHist ==
    \/ \E p \in PanPoints : (Fresh /\ MouseDown(p, 1, FALSE, 1, "", 7))
    \/ \E p \in PanPoints : (MouseMove(p) /\ PanBounded')
    \/ MouseUp(1)
    \/ Render
    \/ (Quiet /\ ResetView)
    \/ (Quiet /\ SelectAll)
    \/ (Quiet /\ DeleteKey /\ Len(history'.stack) <= MaxHist)
    \/ (Quiet /\ HandlePropertyChange(28) /\ Len(history'.stack) <= MaxHist)
    \/ (Quiet /\ ClearCanvas /\ Len(history'.stack) <= MaxHist)
    \/ (Quiet /\ Undo)
    \/ (Quiet /\ Redo)

SpecHist == InitPan /\ [][NextHist]_vars

\* C30: the viewport is no part of the undo history. A step that pushes,
\* undoes or redoes leaves zoom and offsets as they are; the snapshot a push
\* adds is the scene the step leaves and an undo or redo shows the snapshot
\* under the cursor, whatever the viewport; a step that changes the viewport
\* leaves the history as it is.
ViewportOutsideHistory ==
    [][/\ history' # history => viewport' = viewport
       /\ (Undo \/ Redo) => viewport' = viewport
       /\ history'.stack # history.stack => Last(history'.stack) = elements'
       /\ ((Undo \/ Redo) /\ history' # history) =>
             elements' = history.stack[history'.index + 1]
       /\ viewport' # viewport => history' = history]_vars

\* A delete was pushed and undone with the view panned away at a zoom other
\* than 1: the view is still where it was.
UndoneWhilePanned ==
    /\ viewport.zoom # Whole(1)
    /\ viewport.offsetX # Whole(0)
    /\ Len(history.stack) = 3
    /\ history.index = 1
    /\ Len(history.stack[3]) = 1 /\ history.stack[3][1].isDeleted
    /\ Len(elements) = 1 /\ ~elements[1].isDeleted
    /\ interaction.mode = "idle"

\* C31: at every pointer-move of a resizing gesture the bounds of the target
\* element (getElementBounds) equal applyResize(origBounds, handle, dx, dy),
\* (dx, dy) being the world delta from the gesture start, whether the target
\* is box-like or path-like; every other element is unchanged.
ResizeSetsBounds ==
    [][\A p \in CorePoints :
          (interaction.mode = "resizing" /\ MouseMove(p)) =>
             LET w == ClientToWorld(p, stateRef.viewport)
                 r == ApplyResize(interaction.origBounds, interaction.handle,
                                  w.x - interaction.startX, w.y - interaction.startY)
             IN /\ Len(elements') = Len(elements)
                /\ \A i \in 1 .. Len(elements) :
                      IF elements[i].id = interaction.elementId
                      THEN GetElementBounds(elements'[i]) = r
                      ELSE elements'[i] = elements[i]]_vars

\* The same property for a box-like target.
ResizeSetsBoundsOfBox ==
    [][\A p \in CorePoints :
          (/\ interaction.mode = "resizing" /\ MouseMove(p)
           /\ FindById(elements, interaction.elementId).type \notin PathTypes) =>
             LET w == ClientToWorld(p, stateRef.viewport)
                 r == ApplyResize(interaction.origBounds, interaction.handle,
                                  w.x - interaction.startX, w.y - interaction.startY)
             IN GetElementBounds(FindById(elements', interaction.elementId)) = r]_vars

\* C32: applyResize keeps the edge opposite the dragged handle where it was,
\* for every captured bounds and every delta, the deltas for which the floor
\* of 2 applies included: with handle w, nw or sw the result's x + width is
\* the original x + width, with handle n, nw or ne the result's y + height
\* is the original y + height.
OppositeEdgeLocked ==
    [](interaction.mode = "resizing" =>
          \A h \in HandleSet, d \in ResizeDeltas :
             LET o == interaction.origBounds
                 r == ApplyResize(o, h, d.x, d.y)
             IN /\ h \in {"w", "nw", "sw"} => r.x + r.width = o.x + o.width
                /\ h \in {"n", "nw", "ne"} => r.y + r.height = o.y + o.height)

\* The same property for the deltas that leave the size above the floor.
OppositeEdgeLockedAboveFloor ==
    [](interaction.mode = "resizing" =>
          \A h \in HandleSet, d \in ResizeDeltas :
             LET o == interaction.origBounds
                 r == ApplyResize(o, h, d.x, d.y)
             IN /\ (h \in {"w", "nw", "sw"} /\ o.width - d.x >= MIN_SIZE)
                    => r.x + r.width = o.x + o.width
                /\ (h \in {"n", "nw", "ne"} /\ o.height - d.y >= MIN_SIZE)
                    => r.y + r.height = o.y + o.height)

\* C33: an edge handle changes only its own axis, for every captured bounds
\* and every delta: applyResize with handle n or s returns the original x
\* and width, with handle e or w the original y and height.
EdgeHandleOwnAxis ==
    [](interaction.mode = "resizing" =>
          \A h \in {"n", "s", "e", "w"}, d \in ResizeDeltas :
             LET o == interaction.origBounds
                 r == ApplyResize(o, h, d.x, d.y)
             IN /\ h \in {"n", "s"} => (r.x = o.x /\ r.width = o.width)
                /\ h \in {"e", "w"} => (r.y = o.y /\ r.height = o.height))

\* The same property for captured bounds of at least the floor on both axes.
EdgeHandleOwnAxisOfWideBox ==
    [](interaction.mode = "resizing" =>
          \A h \in {"n", "s", "e", "w"}, d \in ResizeDeltas :
             LET o == interaction.origBounds
                 r == ApplyResize(o, h, d.x, d.y)
             IN (o.width >= MIN_SIZE /\ o.height >= MIN_SIZE) =>
                   /\ h \in {"n", "s"} => (r.x = o.x /\ r.width = o.width)
                   /\ h \in {"e", "w"} => (r.y = o.y /\ r.height = o.height))

\* C34: at pointer-up of every arrow or line drawing gesture the pending
\* element has at least 2 points and is committed: appended to the scene,
\* selected, one snapshot pushed; a pointer-down followed directly by
\* pointer-up included.
LineAlwaysCommitted ==
    [][(/\ MouseUp(0) /\ interaction.mode = "drawing" /\ drawingEl # <<>>
        /\ drawingEl[1].type \in {"arrow", "line"}) =>
           /\ Len(drawingEl[1].points) >= 2
           /\ elements' = Append(elements, drawingEl[1])
           /\ selectedIds' = {drawingEl[1].id}
           /\ Len(history'.stack) = history.index + 2
           /\ Last(history'.stack) = elements']_vars

\* The same property for the gestures with at least one pointer-move.
LineCommittedOnceMoved ==
    [][(/\ MouseUp(0) /\ interaction.mode = "drawing" /\ drawingEl # <<>>
        /\ drawingEl[1].type \in {"arrow", "line"}
        /\ Len(drawingEl[1].points) >= 2) =>
           /\ elements' = Append(elements, drawingEl[1])
           /\ selectedIds' = {drawingEl[1].id}
           /\ Len(history'.stack) = history.index + 2
           /\ Last(history'.stack) = elements']_vars

\* C35: in a rubber-band gesture every pointer-move leaves the rectangle
\* spanned by the start point and the pointer, whichever way the drag goes,
\* and a selection of exactly the ids of the non-deleted elements whose
\* bounds lie inside it; pointer-up removes the rectangle and keeps that
\* selection; the pointer-down that starts the gesture empties the
\* selection, which stays empty until the first pointer-move, so that a
\* click on empty space leaves nothing selected.
RubberBandSelects ==
    /\ []((interaction.mode = "selecting" /\ selRect = <<>>) => selectedIds = {})
    /\ [][/\ \A p \in QueryPoints :
               (interaction.mode = "selecting" /\ MouseMove(p)) =>
                  LET w == ClientToWorld(p, stateRef.viewport)
                      x1 == Min(interaction.startX, w.x)
                      x2 == Max(interaction.startX, w.x)
                      y1 == Min(interaction.startY, w.y)
                      y2 == Max(interaction.startY, w.y)
                      els == stateRef.elements
                      Held(e) == LET b == GetElementBounds(e)
                                 IN /\ ~e.isDeleted
                                    /\ x1 <= b.x /\ b.x + b.width <= x2
                                    /\ y1 <= b.y /\ b.y + b.height <= y2
                  IN /\ selRect' = <<[x |-> x1, y |-> y1,
                                      width |-> x2 - x1, height |-> y2 - y1]>>
                     /\ selectedIds' = {els[i].id : i \in {j \in 1 .. Len(els) : Held(els[j])}}
          /\ (interaction.mode = "selecting" /\ MouseUp(0)) =>
                /\ selRect' = <<>>
                /\ selectedIds' = selectedIds
                /\ UNCHANGED <<elements, history>>
          /\ \A p \in QueryPoints :
               (MouseDown(p, 0, FALSE, 1, "", 7) /\ interaction'.mode = "selecting") =>
                  selectedIds' = {} /\ selRect' = <<>>]_vars

\* A rubber band dragged up and to the left over a scene with a deleted
\* element inside it: the live one is selected, the deleted one is not.
BandDraggedUpLeft ==
    /\ interaction.mode = "selecting"
    /\ selRect # <<>>
    /\ interaction.startX > selRect[1].x /\ interaction.startY > selRect[1].y
    /\ selectedIds = {1}
    /\ elements[2].isDeleted
    /\ InRectWithDeleted(elements[2], selRect[1].x, selRect[1].y,
                         selRect[1].width, selRect[1].height)

\* ------------------------------------------------------ pending element
\* Rectangles and free strokes drawn one after the other, with undo between
\* gestures. A drawing pointer-move writes drawingElRef only, so no render
\* is ever pending here.
PendingTools == {"rectangle", "freedraw"}
NextPending ==
    \/ \E t \in PendingTools : (Quiet /\ SetTool(t))
    \/ \E p \in CorePoints : (Fresh /\ MouseDown(p, 0, FALSE, 1, "", 7) /\ Bounded')
    \/ \E p \in CorePoints : (MouseMove(p) /\ Bounded')
    \/ (MouseUp(0) /\ Bounded')
    \/ (Quiet /\ Undo)

SpecPending == Init /\ [][NextPending]_vars

\* C36: during a drawing or freedrawing gesture the pending element is held
\* outside the committed scene. The pointer-down creates it without
\* touching scene, selection or history; its id is in no element of the
\* scene while the gesture lasts; every pointer-move of the gesture changes
\* the pending element only; and an element enters the scene only at a
\* pointer-up, which appends the pending element.
PendingOutsideScene ==
    /\ []((interaction.mode \in {"drawing", "freedrawing"} /\ drawingEl # <<>>) =>
             drawingEl[1].id \notin ElemIds(elements))
    /\ [][/\ \A p \in CorePoints :
               (MouseDown(p, 0, FALSE, 1, "", 7)
                  /\ interaction'.mode \in {"drawing", "freedrawing"}) =>
                     /\ UNCHANGED <<elements, selectedIds, history>>
                     /\ drawingEl' # <<>>
          /\ \A p \in CorePoints :
               (MouseMove(p) /\ interaction.mode \in {"drawing", "freedrawing"}) =>
                     /\ UNCHANGED <<elements, selectedIds, history, interaction>>
                     /\ drawingEl'[1].id = drawingEl[1].id
          /\ (ElemIds(elements') \ ElemIds(elements) # {}) =>
                /\ MouseUp(0)
                /\ interaction.mode \in {"drawing", "freedrawing"}
                /\ drawingEl # <<>>
                /\ elements' = Append(elements, drawingEl[1])]_vars

\* A second element is pending over a scene that holds the first: a stroke
\* of two points beside the committed and selected rectangle.
StrokePendingOverScene ==
    /\ interaction.mode = "freedrawing"
    /\ drawingEl # <<>> /\ Len(drawingEl[1].points) = 2
    /\ Len(elements) = 1 /\ elements[1].type = "rectangle"
    /\ selectedIds = {1}
    /\ history.stack[Len(history.stack)] = elements

\* Every sequence of elements the state holds: the scene, its mirror, the
\* pending element and the snapshots.
Holders ==
    {elements, stateRef.elements, drawingEl}
        \cup {history.stack[i] : i \in 1 .. Len(history.stack)}

\* C37: every freehand stroke, pending or committed, has one pressure sample
\* per point in every reachable state; every stroke of the scene or of a
\* snapshot has at least 2 points; a freedrawing pointer-move appends exactly
\* one point and one sample and keeps the earlier ones; a stroke that has
\* only its first point at pointer-up is dropped.
PressurePerPoint ==
    /\ [](\A els \in Holders : \A i \in 1 .. Len(els) :
             els[i].type = "freedraw" =>
                /\ Len(els[i].points) = Len(els[i].pressures)
                /\ els # drawingEl => Len(els[i].points) >= 2)
    /\ [][/\ \A p \in CorePoints :
               (MouseMove(p) /\ interaction.mode = "freedrawing" /\ drawingEl # <<>>) =>
                  LET old == drawingEl[1]
                      new == drawingEl'[1]
                      n == Len(old.points)
                  IN /\ Len(new.points) = n + 1 /\ Len(new.pressures) = n + 1
                     /\ SubSeq(new.points, 1, n) = old.points
                     /\ SubSeq(new.pressures, 1, n) = old.pressures
          /\ (/\ MouseUp(0) /\ interaction.mode = "freedrawing" /\ drawingEl # <<>>
              /\ Len(drawingEl[1].points) < 2) =>
                  UNCHANGED <<elements, history>>]_vars

\* A committed stroke of two points and two samples, dragged away from where
\* it was drawn.
StrokeCommittedAndMoved ==
    /\ Len(elements) = 1 /\ elements[1].type = "freedraw"
    /\ Len(elements[1].points) = 2 /\ Len(elements[1].pressures) = 2
    /\ interaction.mode = "moving"
    /\ elements[1].x # history.stack[Len(history.stack)][1].x

\* C38: when pointer-up ends a moving or resizing gesture the snapshot pushed
\* is the live scene with the last pointer-move applied, in every
\* interleaving of pointer-move, render and pointer-up, pointer-up before
\* the render that follows the last pointer-move included.
PushedSceneIsLive ==
    [][(MouseUp(0) /\ interaction.mode \in {"moving", "resizing"}) =>
          /\ Len(history'.stack) = history.index + 2
          /\ Last(history'.stack) = elements
          /\ elements' = elements]_vars

\* The same property for a pointer-up that comes after the render.
PushedSceneIsLiveOnceRendered ==
    [][(MouseUp(0) /\ interaction.mode \in {"moving", "resizing"} /\ Fresh) =>
          /\ Len(history'.stack) = history.index + 2
          /\ Last(history'.stack) = elements
          /\ elements' = elements]_vars

\* ------------------------------------------------- mutations and pushes
\* Texts created with the text tool, committed, selected by a click and
\* restyled from the properties panel, with undo.
NextStyle ==
    \/ \E t \in TextTools : (Quiet /\ SetTool(t))
    \/ \E p \in CorePoints, text \in Texts :
          (Fresh /\ MouseDown(p, 0, FALSE, 1, text, 7)
                 /\ interaction'.mode # "resizing" /\ Bounded')
    \/ (MouseUp(0) /\ Bounded')
    \/ \E text \in Texts : (Fresh /\ TextareaCommit(text) /\ Bounded')
    \/ \E fs \in FontSizes : (Quiet /\ HandlePropertyChange(fs) /\ Bounded')
    \/ (Quiet /\ Undo)

SpecStyle == Init /\ [][NextStyle]_vars

\* The ids of the elements of every snapshot.
PushedIds == UNION {ElemIds(history.stack[i]) : i \in 1 .. Len(history.stack)}

\* C39: every mutation of the scene ends with a push. A property change with
\* a non-empty selection changes the selected elements only, keeps the
\* order and the ids, and pushes exactly one snapshot, the resulting scene.
\* An element added to the scene is pushed once the operation that added it
\* completes: the end of the text edit that the text tool opened pushes the
\* scene it leaves, and outside a text edit every element of the scene is in
\* a snapshot.
MutationsPush ==
    /\ [](editingTextId = NoId => ElemIds(elements) \subseteq PushedIds)
    /\ [][/\ \A fs \in FontSizes :
               (HandlePropertyChange(fs) /\ stateRef.selectedIds # {}) =>
                  /\ Len(elements') = Len(elements)
                  /\ \A i \in 1 .. Len(elements) :
                        /\ elements'[i].id = elements[i].id
                        /\ elements[i].id \notin stateRef.selectedIds =>
                              elements'[i] = elements[i]
                        /\ (elements[i].id \in stateRef.selectedIds /\ fs # 0) =>
                              elements'[i].fontSize = fs
                  /\ Len(history'.stack) = history.index + 2
                  /\ SubSeq(history'.stack, 1, history.index + 1)
                        = SubSeq(history.stack, 1, history.index + 1)
                  /\ Last(history'.stack) = elements'
                  /\ history'.index = history.index + 1
          /\ (editingTextId # NoId /\ editingTextId' = NoId) =>
                  /\ Len(history'.stack) = history.index + 2
                  /\ Last(history'.stack) = elements']_vars

\* Two texts in the scene, the first one selected alone and restyled to
\* size 28, the second left as it was; the restyled scene is the snapshot
\* under the cursor.
RestyledOneOfTwo ==
    /\ Len(elements) = 2
    /\ selectedIds = {elements[1].id}
    /\ elements[1].fontSize = 28
    /\ elements[2].fontSize = DEFAULT_FONT_SIZE
    /\ editingTextId = NoId
    /\ history.stack[history.index + 1] = elements

\* C40: the undo / redo flags match the cursor. The history starts as the
\* single snapshot of the empty scene with the cursor on it and both flags
\* false, and in every reachable state canUndo = (index > 0) and
\* canRedo = (index < stack length - 1).
FlagsMatchCursor ==
    /\ history = [stack |-> <<<<>>>>, index |-> 0] /\ ~canUndo /\ ~canRedo
    /\ [](/\ canUndo = (history.index > 0)
          /\ canRedo = (history.index < Len(history.stack) - 1))

\* Everything undone after two pushes: undo is off, redo is on.
FlagsAtBottom ==
    /\ ~canUndo /\ canRedo
    /\ history.index = 0
    /\ Len(history.stack) = 3
    /\ elements = <<>>
====
